---- MODULE Spec2Model ----
(***************************************************************************)
(* Model of the VTT meeting-transcript processor                           *)
(* (src/src/functions/ProcessVttFile/index.js): the HTTP handler, the      *)
(* batch orchestrator processBatchFiles, the single-item pipeline          *)
(* processSingleVttFile with its summarization fallbacks, and the          *)
(* video-link builders.                                                    *)
(*                                                                         *)
(* Strings are modelled by their structure:                                *)
(*   - a timestamp is the sequence of its ':'-separated parts, "" is <<>>; *)
(*   - a URL is a record [host, query] (host "" is the empty string);      *)
(*   - a text is a sequence of tokens: timestamps and words of a small     *)
(*     concrete vocabulary, whitespace between them;                       *)
(*   - a file name is a sequence of symbols, ".vtt" being one symbol.      *)
(***************************************************************************)
EXTENDS Integers, Sequences, FiniteSets, TLC

VARIABLES
    \* ---- handler and batch orchestrator
    request,            \* the HTTP request being handled
    concurrencyLimit,   \* Number(process.env.BATCH_CONCURRENCY || 3)
    pc,                 \* position of the handler / processBatchFiles
    ci,                 \* chunkArray's loop variable i
    batches,            \* chunkArray's chunks (windows of input positions)
    batchIndex,         \* processBatchFiles' loop variable
    run,                \* per input position: "idle" | "running" | "settled"
    fileResults,        \* per input position: what processSingleVttFile resolved with
    calls,              \* per input position: the calls its run made to the collaborators
    deployment,         \* the configuration and the drive the request runs against
    value,              \* per input position: the settled promise's value
    arrival,            \* input positions in order of settlement
    results,            \* processBatchFiles' results array
    delays,             \* number of inter-window delays awaited so far
    response,           \* the HTTP response returned, or NoResponse
    \* ---- single-item pipeline explored on its own
    penv,               \* environment of one processSingleVttFile run
    pformat,            \* its outputFormat
    ppc,                \* "start" | "done"
    presult,            \* its return value
    pcalls,             \* the calls it made to the collaborators, in order
    \* ---- link builders explored on their own
    lts,                \* a timestamp
    lurl,               \* a viewer URL
    lpc,                \* "start" | "done"
    lout,               \* the links built from them
    \* ---- parseVttTimestamps explored on its own
    vttContent,         \* its argument
    cpc,                \* "start" | "done"
    contentBlocks,      \* what the call did: [threw, blocks]
    \* ---- the download step of the pipeline explored on its own
    raw,                \* the downloaded text
    MAX_CHARS,          \* Number(process.env.MAX_VTT_CHARS || 32000)
    dpc,                \* "start" | "done"
    download,           \* vttContent, wasTruncated and what follows from them
    \* ---- the seconds <-> HH:MM:SS helpers explored on their own
    sec,                \* a number of seconds
    tpc,                \* "start" | "done"
    hms,                \* formatSecondsAsHms(sec) and the seconds read back
    \* ---- the SharePointWebhook handler explored on its own
    hookReq,            \* the request: validation token, body, body.value
    hookEnv,            \* whether graphClient and processEndpoint are available
    hookPc,             \* "start" | "loop" | "done"
    hookIndex,          \* position in body.value of the next notification
    hookHandled,        \* what was done with each notification, in order
    hookRes             \* context.res

batchVars == <<request, concurrencyLimit, pc, ci, batches, batchIndex, run,
               fileResults, calls, deployment, value, arrival, results, delays, response>>
pipeVars  == <<penv, pformat, ppc, presult, pcalls>>
linkVars  == <<lts, lurl, lpc, lout>>
parseVars == <<vttContent, cpc, contentBlocks>>
truncVars == <<raw, MAX_CHARS, dpc, download>>
timeVars  == <<sec, tpc, hms>>
hookVars  == <<hookReq, hookEnv, hookPc, hookIndex, hookHandled, hookRes>>
toolVars  == <<parseVars, truncVars, timeVars, hookVars>>
vars      == <<batchVars, pipeVars, linkVars, toolVars>>

----------------------------------------------------------------------------
(* Bounds of the model *)

MaxFiles    == 3    \* longest fileNames list of a request
MaxChunks   == 4    \* chunkArray iterations followed before it is cut off
MaxAiPoints == 3    \* longest keyPoints array in a model response
MaxCues     == 2    \* longest parsed transcript

----------------------------------------------------------------------------
(* Generic helpers *)

Range(s) == {s[k] : k \in 1..Len(s)}

Min(a, b) == IF a <= b THEN a ELSE b

Max(a, b) == IF a >= b THEN a ELSE b

\* Array.prototype.slice(from, to) over 0-based positions, as a 1-based
\* sequence; a negative position counts from the end
Slice(s, from, to) ==
    LET lo == IF from < 0 THEN Max(Len(s) + from, 0) ELSE Min(from, Len(s))
        hi == IF to < 0 THEN Max(Len(s) + to, 0) ELSE Min(to, Len(s))
    IN  IF hi <= lo THEN <<>> ELSE [k \in 1..(hi - lo) |-> s[lo + k]]

\* sequences over S of length at most n
SeqsUpTo(S, n) == UNION {[1..k -> S] : k \in 0..n}

----------------------------------------------------------------------------
(* Timestamps and URLs *)

\* two-digit parts used in the model, and their numeric values
Parts == {"00", "01", "05"}
Num(p) == CASE p = "00" -> 0 [] p = "01" -> 1 [] p = "05" -> 5 [] OTHER -> 0

EmptyTs == <<>>
Timestamps == SeqsUpTo(Parts, 3)
HmsTimestamps == [1..3 -> Parts]

NoUrl == [host |-> "", query |-> FALSE]
\* hosts "sharepoint" and "yourtenant.sharepoint" (the placeholder domain) are
\* collaboration-suite (document store) hosts
Hosts == {"sharepoint", "yourtenant.sharepoint", "other"}
Urls == {NoUrl} \cup [host : {"sharepoint", "other"}, query : BOOLEAN]
PlaceholderUrl == [host |-> "yourtenant.sharepoint", query |-> FALSE]
IsCollaborationHost(url) == url.host \in {"sharepoint", "yourtenant.sharepoint"}

\* A link value: null, the empty string, a string supplied by the model
\* ("given"), or base + "#t=" + fragment, or base + ("?"|"&") + "t=" + secs
NullLink  == [kind |-> "null",  base |-> NoUrl, frag |-> <<>>, secs |-> 0]
EmptyLink == [kind |-> "empty", base |-> NoUrl, frag |-> <<>>, secs |-> 0]
GivenLink == [kind |-> "given", base |-> NoUrl, frag |-> <<>>, secs |-> 0]
FragmentLink(url, frag) ==
    [kind |-> "fragment", base |-> url, frag |-> frag, secs |-> 0]
QueryLink(url, secs) ==
    [kind |-> "query", base |-> url, frag |-> <<>>, secs |-> secs]

\* JavaScript truthiness of a link value
LinkTruthy(l) == l.kind \notin {"null", "empty"}

\* destructuring [hours, minutes, seconds] = timestamp.split(':')
PartOrUndefined(ts, k) == IF k <= Len(ts) THEN ts[k] ELSE "undefined"

\* a variant of createVideoLink without its guard on missing inputs
createVideoLinkNoGuard(timestamp, videoUrl) ==
    FragmentLink(videoUrl,
        << [v |-> PartOrUndefined(timestamp, 1), u |-> "h"],
           [v |-> PartOrUndefined(timestamp, 2), u |-> "m"],
           [v |-> PartOrUndefined(timestamp, 3), u |-> "s"] >>)

createVideoLink(timestamp, videoUrl) ==
    IF timestamp = EmptyTs \/ videoUrl = NoUrl
    THEN NullLink
    ELSE FragmentLink(videoUrl,
            << [v |-> PartOrUndefined(timestamp, 1), u |-> "h"],
               [v |-> PartOrUndefined(timestamp, 2), u |-> "m"],
               [v |-> PartOrUndefined(timestamp, 3), u |-> "s"] >>)

\* a variant of hmsFragment without the second replace: every ':' becomes 'h'
hmsFragmentOnlyH(ts) ==
    [k \in 1..Len(ts) |-> [v |-> ts[k], u |-> IF k < Len(ts) THEN "h" ELSE ""]]

\* ts.replace(/:/g, 'h').replace(/h(\d{2})$/, 'm$1s'): every ':' becomes 'h',
\* then a final "h" followed by two digits becomes "m..s"
hmsFragment(ts) ==
    LET n == Len(ts)
    IN  [k \in 1..n |->
            [v |-> ts[k],
             u |-> IF n >= 2 /\ k = n - 1 THEN "m"
                   ELSE IF n >= 2 /\ k = n THEN "s"
                   ELSE IF k < n THEN "h" ELSE ""]]

\* the link expression of the enrichment step
\*   point?.timestamp && videoUrl ? `${videoUrl}#t=...` : (point?.videoLink || "")
enrichLink(timestamp, videoUrl, videoLink) ==
    IF timestamp # EmptyTs /\ videoUrl # NoUrl
    THEN FragmentLink(videoUrl, hmsFragment(timestamp))
    ELSE IF LinkTruthy(videoLink) THEN videoLink ELSE EmptyLink

\* seconds of a raw timestamp as the Word export computes them
tsSeconds(ts) ==
    IF Len(ts) = 0 THEN 0
    ELSE IF Len(ts) = 1 THEN Num(ts[1])
    ELSE IF Len(ts) = 2 THEN Num(ts[1]) * 60 + Num(ts[2])
    ELSE Num(ts[1]) * 3600 + Num(ts[2]) * 60 + Num(ts[3])

\* the viewer URL of the Word export: base?t=secs or base&t=secs, nothing
\* when there is no base
wordViewerUrl(base, rawTs) ==
    IF base = NoUrl THEN EmptyLink ELSE QueryLink(base, tsSeconds(rawTs))

----------------------------------------------------------------------------
(* Texts: lines of tokens *)

TsTok == [ts |-> TRUE, w |-> ""]
Word(w) == [ts |-> FALSE, w |-> w]

Vocabulary == {"Hello", "Hello.", "team", "team.", "decision", "decision."}

\* /^[A-Z][a-z]+/ on a word
StartsCapitalized(tok) == ~tok.ts /\ tok.w \in {"Hello", "Hello."}
\* /action|decision|important|key/i on a word
HasKeyword(tok) == ~tok.ts /\ tok.w \in {"decision", "decision."}
\* the word ends with '.', '!' or '?'
EndsSentence(tok) == ~tok.ts /\ tok.w \in {"Hello.", "team.", "decision."}
\* /^\s*[-•–]/ on the first token of a line
IsBulletMarker(tok) == ~tok.ts /\ tok.w \in {"-"}

WordLen(tok) ==
    IF tok.ts THEN 8
    ELSE CASE tok.w = "Hello" -> 5 [] tok.w = "Hello." -> 6
           [] tok.w = "team" -> 4 [] tok.w = "team." -> 5
           [] tok.w = "decision" -> 8 [] tok.w = "decision." -> 9
           [] tok.w = "<v John>" -> 8
           [] tok.w = "chars" -> tok.n
           [] OTHER -> 1

RECURSIVE Flatten(_)
Flatten(lines) ==
    IF lines = <<>> THEN <<>> ELSE Head(lines) \o Flatten(Tail(lines))

\* text.split(/(?<=[.!?])\s+/): cut after every token that ends a sentence
\* and is followed by more text
RECURSIVE SplitSentences(_, _)
SplitSentences(toks, cur) ==
    IF toks = <<>>
    THEN (IF cur = <<>> THEN <<>> ELSE <<cur>>)
    ELSE IF EndsSentence(Head(toks)) /\ Tail(toks) # <<>>
         THEN <<Append(cur, Head(toks))>> \o SplitSentences(Tail(toks), <<>>)
         ELSE SplitSentences(Tail(toks), Append(cur, Head(toks)))

\* length of tokens joined by single spaces
RECURSIVE JoinedLen(_)
JoinedLen(toks) ==
    IF toks = <<>> THEN 0
    ELSE WordLen(Head(toks)) + (IF Tail(toks) = <<>> THEN 0 ELSE 1)
         + JoinedLen(Tail(toks))

\* timestampBlocks.map(b => `${b.timestamp || ""} ${b.content || ""}`).join("\n")
transcriptText(timestampBlocks) ==
    [k \in 1..Len(timestampBlocks) |-> <<TsTok>> \o timestampBlocks[k].content]

KeepSentence(s) == StartsCapitalized(s[1]) \/ \E k \in 1..Len(s) : HasKeyword(s[k])
KeepEverySentence(s) == TRUE

NonEmpty(x) == x # <<>>
BulletLine(line) == line # <<>> /\ IsBulletMarker(line[1])

\* Array.from(new Set(...)): first occurrences, in order
RECURSIVE Dedupe(_, _)
Dedupe(s, seen) ==
    IF s = <<>> THEN <<>>
    ELSE IF Head(s) \in seen THEN Dedupe(Tail(s), seen)
         ELSE <<Head(s)>> \o Dedupe(Tail(s), seen \cup {Head(s)})

\* a variant of deriveKeyPointsFallbackFromText that keeps every sentence
deriveKeyPointsFallbackFromTextUnfiltered(text) ==
    IF text = <<>> THEN <<>>
    ELSE Slice(SelectSeq(SplitSentences(Flatten(text), <<>>), KeepEverySentence), 0, 8)

deriveKeyPointsFallbackFromText(text) ==
    IF text = <<>> THEN <<>>
    ELSE LET marked == SelectSeq(text, BulletLine)
             stripped == [k \in 1..Len(marked) |-> Tail(marked[k])]
             bullets == Dedupe(SelectSeq(stripped, NonEmpty), {})
         IN  IF Len(bullets) >= 3
             THEN Slice(bullets, 0, 12)
             ELSE Slice(SelectSeq(SplitSentences(Flatten(text), <<>>), KeepSentence), 0, 8)

\* a summary string: where it came from and its trimmed length
ModelSummary(len) == [src |-> "model", len |-> len]
DefaultSummary == [src |-> "default", len |-> 51]
NoSummary == [src |-> "none", len |-> 0]

NotTs(tok) == ~tok.ts

generateFallbackSummary(text) ==
    IF text = <<>> THEN DefaultSummary
    ELSE LET clean == SelectSeq(Flatten(text), NotTs)
             sentences == SplitSentences(clean, <<>>)
             picked == Flatten(Slice(sentences, 0, 3))
         IN  IF picked = <<>> THEN DefaultSummary
             ELSE [src |-> "transcript", len |-> JoinedLen(picked)]

----------------------------------------------------------------------------
(* File names and target selection *)

DotVtt == ".vtt"
LowerSym(c) == CASE c = "A" -> "a" [] c = "B" -> "b" [] OTHER -> c
toLowerCase(name) == [k \in 1..Len(name) |-> LowerSym(name[k])]

\* String.prototype.includes
includes(hay, needle) ==
    \E off \in 0..Len(hay) :
        /\ off + Len(needle) <= Len(hay)
        /\ \A k \in 1..Len(needle) : hay[off + k] = needle[k]

\* name.replace('.vtt', ''): the first occurrence only
RECURSIVE stripVtt(_)
stripVtt(name) ==
    IF name = <<>> THEN <<>>
    ELSE IF Head(name) = DotVtt THEN Tail(name)
         ELSE <<Head(name)>> \o stripVtt(Tail(name))

\* position of the first element of s satisfying test, 0 when there is none
FindFirst(s, test(_)) ==
    LET hits == {k \in 1..Len(s) : test(s[k])}
    IN  IF hits = {} THEN 0 ELSE CHOOSE k \in hits : \A j \in hits : k <= j

\* a variant of selectTarget without the second, partial-name search
selectTargetExactOnly(vttFiles, fileName) ==
    LET exact(f) == toLowerCase(f) = toLowerCase(fileName)
    IN  FindFirst(vttFiles, exact)

\* vttFiles.find(exact, case-insensitive) || vttFiles.find(includes stem)
selectTarget(vttFiles, fileName) ==
    LET exact(f) == toLowerCase(f) = toLowerCase(fileName)
        partial(f) == includes(toLowerCase(f), toLowerCase(stripVtt(fileName)))
        hit == FindFirst(vttFiles, exact)
    IN  IF hit # 0 THEN hit ELSE FindFirst(vttFiles, partial)

----------------------------------------------------------------------------
(* Values of the single-item pipeline *)

ZeroTokens == [prompt |-> 0, completion |-> 0, total |-> 0]
SomeTokens == [prompt |-> 7, completion |-> 3, total |-> 10]

\* a key point; tsKind "number" is a timestamp the model returned as a
\* non-zero JSON number instead of a string
KeyPoint(title, timestamp, tsKind, speaker, videoLink) ==
    [title |-> title, timestamp |-> timestamp, tsKind |-> tsKind,
     speaker |-> speaker, videoLink |-> videoLink]

\* a value returned by processSingleVttFile: "fields" are the properties
\* the object has, the other components hold their values
BaseResult ==
    [fields |-> {}, success |-> FALSE, status |-> 0, error |-> "",
     fileName |-> <<>>, availableFiles |-> <<>>,
     summary |-> NoSummary, keyPoints |-> <<>>, topKeyPoints |-> <<>>,
     openaiTokens |-> ZeroTokens, videoUrl |-> NoUrl]

Failure(status, error) ==
    [BaseResult EXCEPT
        !.fields = {"success", "status", "error", "processedAt", "processingTimeMs"},
        !.status = status, !.error = error]

\* the object parsed from the model's reply
EmptyObject ==
    [summaryIsString |-> FALSE, summaryLen |-> 0,
     keyPointsIsArray |-> FALSE, keyPoints |-> <<>>]

\* a variant of safeParseModelJson that decodes plain JSON only
safeParseModelJsonStrict(content) ==
    IF content.form = "json" THEN content.obj ELSE EmptyObject

\* safeParseModelJson: {} for empty text and for text neither JSON.parse nor
\* the {...} span of it decodes; code fences are stripped first
safeParseModelJson(content) ==
    IF content.form = "empty" THEN EmptyObject
    ELSE IF content.form \in {"json", "fenced"} THEN content.obj
    ELSE IF content.form = "embedded" THEN content.obj
    ELSE EmptyObject

\* a variant of metadataVideoUrl that leaves the URL empty without a site URL
metadataVideoUrlOrEmpty(sharepointSiteUrl) ==
    IF sharepointSiteUrl # NoUrl
    THEN [host |-> sharepointSiteUrl.host, query |-> sharepointSiteUrl.query]
    ELSE NoUrl

\* extractMeetingMetadata(...).videoUrl
metadataVideoUrl(sharepointSiteUrl) ==
    IF sharepointSiteUrl # NoUrl
    THEN [host |-> sharepointSiteUrl.host, query |-> sharepointSiteUrl.query]
    ELSE PlaceholderUrl

----------------------------------------------------------------------------
(* The summarization step of processSingleVttFile *)

MinSummaryLength == 20
MinKeyPoints == 3

\* a variant of aiStage that records the usage only after a successful decode
aiStageUsageAfterDecode(ai) ==
    IF ai.outcome = "throws"
    THEN [summary |-> NoSummary, keyPoints |-> <<>>, tokensLog |-> ZeroTokens]
    ELSE LET aiParsed == safeParseModelJson(ai.content)
         IN  [summary |-> IF aiParsed.summaryIsString
                          THEN ModelSummary(aiParsed.summaryLen) ELSE NoSummary,
              keyPoints |-> IF aiParsed.keyPointsIsArray
                            THEN aiParsed.keyPoints ELSE <<>>,
              tokensLog |-> IF aiParsed = EmptyObject THEN ZeroTokens ELSE ai.usage]

\* a variant of aiStage that records a usage when the call throws
aiStageUsageOnThrow(ai) ==
    LET aiParsed == IF ai.outcome = "throws" THEN EmptyObject
                    ELSE safeParseModelJson(ai.content)
    IN  [summary |-> IF aiParsed.summaryIsString
                     THEN ModelSummary(aiParsed.summaryLen) ELSE NoSummary,
         keyPoints |-> IF aiParsed.keyPointsIsArray
                       THEN aiParsed.keyPoints ELSE <<>>,
         tokensLog |-> ai.usage]

\* the try block around the chat-completion call: the reply's usage is
\* recorded first, then its content is decoded
aiStage(ai) ==
    IF ai.outcome = "throws"
    THEN [summary |-> NoSummary, keyPoints |-> <<>>, tokensLog |-> ZeroTokens]
    ELSE LET aiParsed == safeParseModelJson(ai.content)
         IN  [summary |-> IF aiParsed.summaryIsString
                          THEN ModelSummary(aiParsed.summaryLen) ELSE NoSummary,
              keyPoints |-> IF aiParsed.keyPointsIsArray
                            THEN aiParsed.keyPoints ELSE <<>>,
              tokensLog |-> ai.usage]

\* (point.timestamp || '').replace(...) is evaluated when the timestamp and
\* the video URL are truthy: a timestamp that is a number has no replace
enrichThrows(keyPoints, videoUrl) ==
    \E k \in 1..Len(keyPoints) :
        keyPoints[k].tsKind = "number" /\ videoUrl # NoUrl

\* a variant of enrichKeyPoints that keeps a link the point carries
enrichKeyPointsKeepLink(keyPoints, videoUrl) ==
    [k \in 1..Len(keyPoints) |->
        [keyPoints[k] EXCEPT !.videoLink =
            IF LinkTruthy(keyPoints[k].videoLink) THEN keyPoints[k].videoLink
            ELSE enrichLink(keyPoints[k].timestamp, videoUrl, keyPoints[k].videoLink)]]

\* a variant of enrichKeyPoints that builds a link without looking at the timestamp
enrichKeyPointsAlwaysLink(keyPoints, videoUrl) ==
    [k \in 1..Len(keyPoints) |->
        [keyPoints[k] EXCEPT !.videoLink =
            IF videoUrl # NoUrl
            THEN FragmentLink(videoUrl, hmsFragment(keyPoints[k].timestamp))
            ELSE EmptyLink]]

enrichKeyPoints(keyPoints, videoUrl) ==
    [k \in 1..Len(keyPoints) |->
        [keyPoints[k] EXCEPT !.videoLink =
            enrichLink(keyPoints[k].timestamp, videoUrl, keyPoints[k].videoLink)]]

\* timestampBlocks[idx]?.timestamp || "" and timestampBlocks[idx]?.speaker || ""
BlockTimestamp(timestampBlocks, k) ==
    IF k <= Len(timestampBlocks) THEN timestampBlocks[k].timestamp ELSE EmptyTs
BlockSpeaker(timestampBlocks, k) ==
    IF k <= Len(timestampBlocks) THEN timestampBlocks[k].speaker ELSE ""

fallbackKeyPoints(transcript, timestampBlocks, videoUrl) ==
    LET fallback == Slice(deriveKeyPointsFallbackFromText(transcript), 0, 8)
    IN  [k \in 1..Len(fallback) |->
            KeyPoint(fallback[k],
                     BlockTimestamp(timestampBlocks, k), "string",
                     BlockSpeaker(timestampBlocks, k),
                     IF BlockTimestamp(timestampBlocks, k) # EmptyTs /\ videoUrl # NoUrl
                     THEN FragmentLink(videoUrl,
                            hmsFragment(BlockTimestamp(timestampBlocks, k)))
                     ELSE EmptyLink)]

\* if (!summary || summary.trim().length < 20)
SummaryDeficient(summary) == summary.len < MinSummaryLength
\* if (!Array.isArray(keyPoints) || keyPoints.length < 3)
KeyPointsDeficient(keyPoints) == Len(keyPoints) < MinKeyPoints

----------------------------------------------------------------------------
(* Output formats *)

Formats == {"json", "markdown", "html", "summary", "word", "xml"}

HttpResponse(status) ==
    [BaseResult EXCEPT !.fields = {"status", "headers", "body"}, !.status = status]

generateMarkdownOutput(result) ==
    [result EXCEPT !.fields = @ \cup {"outputFormat", "markdownContent", "downloadable"}]

generateSummaryOutput(result) ==
    [BaseResult EXCEPT
        !.fields = {"success", "meetingTitle", "summary", "keyPointsCount",
                    "topKeyPoints", "processingTimeMs", "fileSize", "tokens",
                    "outputFormat", "processedAt"},
        !.success = TRUE,
        !.summary = result.summary,
        !.topKeyPoints =
            LET top == Slice(result.keyPoints, 0, 5)
            IN  [k \in 1..Len(top) |-> [top[k] EXCEPT !.videoLink = NullLink]],
        !.openaiTokens = result.openaiTokens]

\* [threw, value]: generateWordOutput throws when the document encoder fails
applyOutputFormat(result, outputFormat, wordFails) ==
    CASE outputFormat = "html" -> [threw |-> FALSE, value |-> HttpResponse(200)]
      [] outputFormat = "markdown" ->
            [threw |-> FALSE, value |-> generateMarkdownOutput(result)]
      [] outputFormat = "summary" ->
            [threw |-> FALSE, value |-> generateSummaryOutput(result)]
      [] outputFormat = "word" ->
            IF wordFails THEN [threw |-> TRUE, value |-> BaseResult]
            ELSE [threw |-> FALSE, value |-> HttpResponse(200)]
      [] OTHER -> [threw |-> FALSE, value |-> result]

----------------------------------------------------------------------------
(* processSingleVttFile *)

SuccessFields ==
    {"success", "meetingTitle", "date", "videoUrl", "file", "actualFile",
     "summary", "keyPoints", "timestampBlocks", "metadata"}

\* the outer catch of processSingleVttFile
CaughtError(message) ==
    [Failure(500, message) EXCEPT !.fields = @ \cup {"stack", "file"}]

\* a variant of formatFailure that lets the error reach the outer catch
formatFailureOuterCatch(formatError) == CaughtError("TypeError")

\* the catch around applyOutputFormat
formatFailure(formatError) ==
    [Failure(500, "Error formatting output") EXCEPT !.fields = @ \cup {"stack"}]

\* a variant of summarizeAndFormat that backfills the summary and the key
\* points together as soon as one of them is deficient
summarizeAndFormatAllOrNothing(e, fileName, outputFormat) ==
    LET timestampBlocks == e.blocks
        videoUrl == metadataVideoUrl(e.siteUrl)
        transcript == transcriptText(timestampBlocks)
        ai == aiStage(e.ai)
    IN  IF enrichThrows(ai.keyPoints, videoUrl)
        THEN CaughtError("TypeError")
        ELSE
        LET enriched == enrichKeyPoints(ai.keyPoints, videoUrl)
            deficient == SummaryDeficient(ai.summary) \/ KeyPointsDeficient(enriched)
            summary == IF deficient
                       THEN generateFallbackSummary(transcript) ELSE ai.summary
            keyPoints == IF deficient
                         THEN fallbackKeyPoints(transcript, timestampBlocks, videoUrl)
                         ELSE enriched
            result == [BaseResult EXCEPT
                          !.fields = SuccessFields,
                          !.success = TRUE,
                          !.videoUrl = videoUrl,
                          !.summary = summary,
                          !.keyPoints = keyPoints,
                          !.openaiTokens = ai.tokensLog]
            formatted == applyOutputFormat(result, outputFormat, e.wordFails)
        IN  IF formatted.threw
            THEN formatFailure(formatted.value)
            ELSE formatted.value

summarizeAndFormat(e, fileName, outputFormat) ==
    LET timestampBlocks == e.blocks
        videoUrl == metadataVideoUrl(e.siteUrl)
        transcript == transcriptText(timestampBlocks)
        ai == aiStage(e.ai)
    IN  IF enrichThrows(ai.keyPoints, videoUrl)
        THEN CaughtError("TypeError")
        ELSE
        LET enriched == enrichKeyPoints(ai.keyPoints, videoUrl)
            summary == IF SummaryDeficient(ai.summary)
                       THEN generateFallbackSummary(transcript) ELSE ai.summary
            keyPoints == IF KeyPointsDeficient(enriched)
                         THEN fallbackKeyPoints(transcript, timestampBlocks, videoUrl)
                         ELSE enriched
            result == [BaseResult EXCEPT
                          !.fields = SuccessFields,
                          !.success = TRUE,
                          !.videoUrl = videoUrl,
                          !.summary = summary,
                          !.keyPoints = keyPoints,
                          !.openaiTokens = ai.tokensLog]
            formatted == applyOutputFormat(result, outputFormat, e.wordFails)
        IN  IF formatted.threw
            THEN formatFailure(formatted.value)
            ELSE formatted.value

MaxAvailableFiles == 10

\* a variant of availableFiles that lists every candidate
availableFilesAll(vttFiles) == vttFiles

\* vttFiles.map(f => f.name).slice(0, 10)
availableFiles(vttFiles) == Slice(vttFiles, 0, MaxAvailableFiles)

processSingleVttFile(e, fileName, outputFormat) ==
    IF e.config = "missing"
    THEN Failure(500, "Missing required configuration")
    ELSE IF e.drive = "error"
    THEN Failure(500, "Error fetching drive items")
    ELSE
    LET targetFile == selectTarget(e.vttFiles, fileName)
    IN  IF targetFile = 0
        THEN [Failure(404, "File not found") EXCEPT
                !.fields = @ \cup {"availableFiles"},
                !.availableFiles = availableFiles(e.vttFiles)]
        ELSE IF e.download = "nourl"
        THEN [Failure(502, "Download URL not available") EXCEPT
                !.fields = @ \cup {"fileId", "fileName"},
                !.fileName = e.vttFiles[targetFile]]
        ELSE IF e.download = "httperror"
        THEN [Failure(500, "Error downloading VTT file")
                EXCEPT !.fields = @ \cup {"stack"}]
        ELSE summarizeAndFormat(e, fileName, outputFormat)

\* a variant of externalCalls that repeats a summarization call that threw
externalCallsRetry(e, fileName) ==
    IF e.config = "missing" THEN <<>>
    ELSE IF e.drive = "error" THEN <<"listing">>
    ELSE IF selectTarget(e.vttFiles, fileName) = 0 THEN <<"listing">>
    ELSE IF e.download = "nourl" THEN <<"listing", "details">>
    ELSE IF e.download = "httperror" THEN <<"listing", "details", "download">>
    ELSE IF e.ai.outcome = "throws"
    THEN <<"listing", "details", "download", "summarization", "summarization">>
    ELSE <<"listing", "details", "download", "summarization">>

\* a variant of externalCalls that lists the drive before it checks the
\* configuration
externalCallsListFirst(e, fileName) ==
    IF e.config = "missing" THEN <<"listing">>
    ELSE IF e.drive = "error" THEN <<"listing">>
    ELSE IF selectTarget(e.vttFiles, fileName) = 0 THEN <<"listing">>
    ELSE IF e.download = "nourl" THEN <<"listing", "details">>
    ELSE IF e.download = "httperror" THEN <<"listing", "details", "download">>
    ELSE <<"listing", "details", "download", "summarization">>

\* the calls one run of processSingleVttFile makes to its collaborators, in
\* order: the listing of the drive, the details of the target file, the
\* download of its content, the chat completion
externalCalls(e, fileName) ==
    IF e.config = "missing" THEN <<>>
    ELSE IF e.drive = "error" THEN <<"listing">>
    ELSE IF selectTarget(e.vttFiles, fileName) = 0 THEN <<"listing">>
    ELSE IF e.download = "nourl" THEN <<"listing", "details">>
    ELSE IF e.download = "httperror" THEN <<"listing", "details", "download">>
    ELSE <<"listing", "details", "download", "summarization">>

----------------------------------------------------------------------------
(* Environments of a pipeline run: what the file store, the download and   *)
(* the summarization service answer                                        *)

FileA == <<"a", DotVtt>>
FileB == <<"b", DotVtt>>
FileUpperA == <<"A", DotVtt>>
FileAB == <<"a", "b", DotVtt>>
FileZ == <<"z", DotVtt>>

\* cues as parseVttTimestamps emits them: an HH:MM:SS timestamp, the
\* trimmed content, a speaker or ""
CueTimestamp == <<"00", "01", "05">>
Contents ==
    { <<>>,
      <<Word("Hello"), Word("team.")>>,
      <<Word("team."), Word("Hello"), Word("team.")>>,
      <<Word("decision."), Word("Hello"), Word("team.")>>,
      <<Word("decision")>> }
Cues == {[timestamp |-> CueTimestamp, content |-> c, speaker |-> ""] : c \in Contents}
     \cup {[timestamp |-> CueTimestamp,
            content |-> <<Word("Hello"), Word("team.")>>, speaker |-> "John"]}
Transcripts == SeqsUpTo(Cues, MaxCues)

\* key points as the model may return them
AiTitle == <<Word("decision")>>
AiLink == GivenLink
AiKeyPoints ==
    { KeyPoint(AiTitle, <<"00", "01", "05">>, "string", "John", EmptyLink),
      KeyPoint(AiTitle, <<"00", "00", "05">>, "string", "", AiLink),
      KeyPoint(AiTitle, EmptyTs, "string", "", AiLink),
      KeyPoint(AiTitle, EmptyTs, "string", "", EmptyLink),
      KeyPoint(AiTitle, EmptyTs, "number", "", EmptyLink) }

SummaryLengths == {0, MinSummaryLength - 1, MinSummaryLength}

\* a keyPoints array of the minimum length
EnoughPoints ==
    [k \in 1..MinKeyPoints |->
        KeyPoint(AiTitle, <<"00", "01", "05">>, "string", "John", EmptyLink)]

\* decoded responses: every keyPoints array with a sufficient summary, every
\* summary with the keyPoints arrays of at most one point, and the
\* responses whose summary or keyPoints have the wrong type
AiObjects ==
    {EmptyObject}
    \cup [summaryIsString : {TRUE}, summaryLen : {MinSummaryLength},
          keyPointsIsArray : {TRUE}, keyPoints : SeqsUpTo(AiKeyPoints, MaxAiPoints)]
    \cup [summaryIsString : {TRUE}, summaryLen : SummaryLengths,
          keyPointsIsArray : {TRUE}, keyPoints : SeqsUpTo(AiKeyPoints, 1)]
    \cup [summaryIsString : {FALSE}, summaryLen : {0},
          keyPointsIsArray : {TRUE}, keyPoints : SeqsUpTo(AiKeyPoints, 1)]
    \cup [summaryIsString : {TRUE}, summaryLen : SummaryLengths,
          keyPointsIsArray : {FALSE}, keyPoints : {<<>>}]
    \cup [summaryIsString : {TRUE}, summaryLen : SummaryLengths,
          keyPointsIsArray : {TRUE}, keyPoints : {EnoughPoints}]

AiThrows ==
    [outcome |-> "throws", usage |-> ZeroTokens,
     content |-> [form |-> "empty", obj |-> EmptyObject]]
AiReply(usage, form, obj) ==
    [outcome |-> "response", usage |-> usage,
     content |-> [form |-> form, obj |-> obj]]

\* the responses sent inside a code fence or inside other text
FewAiObjects ==
    {o \in AiObjects :
        /\ o.summaryLen # 0
        /\ Len(o.keyPoints) \in {0, MinKeyPoints}
        /\ \A k \in 1..Len(o.keyPoints) : o.keyPoints[k] = o.keyPoints[1]}

AiOutcomes ==
    {AiThrows}
    \cup {AiReply(u, f, EmptyObject) : u \in {ZeroTokens, SomeTokens}, f \in {"empty", "garbage"}}
    \cup {AiReply(SomeTokens, "json", o) : o \in AiObjects}
    \cup {AiReply(SomeTokens, f, o) : f \in {"fenced", "embedded"}, o \in FewAiObjects}

SiteUrls == {NoUrl, [host |-> "sharepoint", query |-> FALSE]}

\* a drive with more .vtt files than a not-found result lists
ManyFiles == [k \in 1..(MaxAvailableFiles + 1) |-> IF k % 2 = 1 THEN FileB ELSE FileZ]

BaseEnv ==
    [config |-> "ok", drive |-> "ok", vttFiles |-> <<FileB, FileA>>,
     download |-> "ok", blocks |-> <<>>, siteUrl |-> NoUrl,
     ai |-> AiThrows, wordFails |-> FALSE]

\* every transcript with the replies of at most one key point, and the
\* transcripts of at most one cue with every reply
SummarizeEnvs ==
    {[BaseEnv EXCEPT !.blocks = p[1], !.siteUrl = u, !.ai = p[2]] :
        u \in SiteUrls,
        p \in {q \in Transcripts \X AiOutcomes :
                  Len(q[1]) <= 1 \/ Len(q[2].content.obj.keyPoints) <= 1}}

StageEnvs ==
    {[BaseEnv EXCEPT !.config = c, !.drive = d, !.vttFiles = v, !.download = l,
                     !.wordFails = w, !.blocks = b, !.ai = a] :
        c \in {"ok", "missing"}, d \in {"ok", "error"},
        v \in {<<>>, <<FileB>>, <<FileB, FileA>>, <<FileAB>>},
        l \in {"ok", "nourl", "httperror"}, w \in BOOLEAN,
        b \in SeqsUpTo(Cues, 1),
        a \in {AiThrows, AiReply(SomeTokens, "garbage", EmptyObject)}}

NoResult == [BaseResult EXCEPT !.fields = {"pending"}]

----------------------------------------------------------------------------
(* Seconds and HH:MM:SS texts: a text is a sequence of digit strings, one   *)
(* per ':'-separated part                                                  *)

MaxSeconds == 120    \* every number of seconds up to it is tried

\* String(n) as its decimal digits
RECURSIVE Digits(_)
Digits(n) == IF n < 10 THEN <<n>> ELSE Append(Digits(n \div 10), n % 10)

\* String(n).padStart(2, '0')
padStart2(digits) == IF Len(digits) < 2 THEN <<0>> \o digits ELSE digits

\* Number(p) || 0 of a digit string ('' is 0)
RECURSIVE DigitsValue(_)
DigitsValue(digits) ==
    IF digits = <<>> THEN 0
    ELSE 10 * DigitsValue(SubSeq(digits, 1, Len(digits) - 1)) + digits[Len(digits)]

\* a variant of formatSecondsAsHms whose hours wrap at 24
formatSecondsAsHmsWrapDay(n) ==
    LET s == Max(0, n)
    IN  << padStart2(Digits((s \div 3600) % 24)),
           padStart2(Digits((s % 3600) \div 60)),
           padStart2(Digits(s % 60)) >>

formatSecondsAsHms(n) ==
    LET s == Max(0, n)
    IN  << padStart2(Digits(s \div 3600)),
           padStart2(Digits((s % 3600) \div 60)),
           padStart2(Digits(s % 60)) >>

\* normalizeTimestampToSeconds(ts).totalSeconds
normalizeTimestampToSeconds(ts) ==
    LET parts == [k \in 1..Len(ts) |-> DigitsValue(ts[k])]
        h == IF Len(parts) >= 3 THEN parts[1] ELSE 0
        m == IF Len(parts) >= 3 THEN parts[2]
             ELSE IF Len(parts) = 2 THEN parts[1] ELSE 0
        sc == IF Len(parts) >= 3 THEN parts[3]
              ELSE IF Len(parts) = 2 THEN parts[2]
              ELSE IF Len(parts) = 1 THEN parts[1] ELSE 0
    IN  h * 3600 + m * 60 + sc

\* the seconds tried: every small number, and the numbers around whole
\* hours, a day and a hundred hours
SecondsInputs ==
    0..MaxSeconds
    \cup {h * 3600 + m * 60 + s0 : h \in {1, 23, 24, 99, 100}, m \in {0, 1, 59},
                                  s0 \in {0, 1, 59}}

----------------------------------------------------------------------------
(* parseVttTimestamps: a text is a sequence of lines                       *)

MaxLines == 4    \* longest text given to the parser

\* speaker: null of a block without speaker (names are never empty)
NoSpeaker == ""
\* the markup "<v John>" left in front of the text of an unclosed tag
VoiceTag == [ts |-> FALSE, w |-> "<v John>"]
IsMarkup(tok) == tok = VoiceTag

\* "HH:MM:SS.mmm --> HH:MM:SS.mmm"
MarkerLine(ts) == [kind |-> "marker", ts |-> ts, speaker |-> NoSpeaker, words |-> <<>>]
\* an empty or whitespace-only line
BlankLine == [kind |-> "blank", ts |-> EmptyTs, speaker |-> NoSpeaker, words |-> <<>>]
\* "<v Name>words</v>"
VTagLine(name, words) == [kind |-> "vtag", ts |-> EmptyTs, speaker |-> name, words |-> words]
\* "<v Name>words" without the closing tag
VOpenLine(name, words) == [kind |-> "vopen", ts |-> EmptyTs, speaker |-> name, words |-> words]
\* "Name: words"
ColonLine(name, words) == [kind |-> "colon", ts |-> EmptyTs, speaker |-> name, words |-> words]
\* any other text, "WEBVTT" included
PlainLine(words) == [kind |-> "plain", ts |-> EmptyTs, speaker |-> NoSpeaker, words |-> words]

\* a new block, and no block, as a sequence of at most one block
NewBlock(ts) == <<[timestamp |-> ts, content |-> <<>>, speaker |-> NoSpeaker]>>
NoBlock == <<>>

\* the loop body of parseVttTimestamps for one line that is not a marker
\* and not blank, with a current block
addLine(block, line) ==
    CASE line.kind = "vtag" ->
            [block EXCEPT !.speaker = line.speaker, !.content = @ \o line.words]
      [] line.kind = "colon" ->
            [block EXCEPT
                !.speaker = IF block.speaker # NoSpeaker THEN block.speaker
                            ELSE line.speaker,
                !.content = @ \o line.words]
      [] line.kind = "vopen" ->
            [block EXCEPT !.content = @ \o <<VoiceTag>> \o line.words]
      [] OTHER ->
            [block EXCEPT !.content = @ \o line.words]

\* the for loop of parseVttTimestamps and the push after it
RECURSIVE parseLines(_, _, _)
parseLines(lines, blocks, currentBlock) ==
    IF lines = <<>> THEN blocks \o currentBlock
    ELSE LET line == Head(lines)
         IN  IF line.kind = "marker"
             THEN parseLines(Tail(lines), blocks \o currentBlock, NewBlock(line.ts))
             ELSE IF currentBlock = NoBlock
             THEN parseLines(Tail(lines), blocks, NoBlock)
             ELSE IF line.kind = "blank"
             THEN parseLines(Tail(lines), blocks \o currentBlock, NoBlock)
             ELSE parseLines(Tail(lines), blocks,
                             <<addLine(currentBlock[1], line)>>)

\* the arguments of the parser: null, undefined, a value that is not a
\* string, or a text; the empty string is the text without lines
NullContent == [kind |-> "null", lines |-> <<>>]
UndefinedContent == [kind |-> "undefined", lines |-> <<>>]
NumberContent == [kind |-> "number", lines |-> <<>>]
Text(lines) == [kind |-> "text", lines |-> lines]

\* a variant of parseVttTimestamps without its guard on a falsy argument
parseVttTimestampsNoGuard(content) ==
    IF content.kind # "text"
    THEN [threw |-> TRUE, blocks |-> <<>>]
    ELSE [threw |-> FALSE,
          blocks |-> parseLines(IF content.lines = <<>> THEN <<BlankLine>>
                                ELSE content.lines, <<>>, NoBlock)]

\* parseVttTimestamps: [] for a falsy argument; split throws on a truthy
\* value that is not a string
parseVttTimestamps(content) ==
    IF content.kind \in {"null", "undefined"} \/ content = Text(<<>>)
    THEN [threw |-> FALSE, blocks |-> <<>>]
    ELSE IF content.kind # "text"
    THEN [threw |-> TRUE, blocks |-> <<>>]
    ELSE [threw |-> FALSE, blocks |-> parseLines(content.lines, <<>>, NoBlock)]

SpokenWords == <<Word("Hello"), Word("team.")>>
ParserLines ==
    { MarkerLine(<<"00", "01", "05">>), MarkerLine(<<"00", "00", "05">>), BlankLine,
      VTagLine("John", SpokenWords), VOpenLine("John", SpokenWords),
      ColonLine("Jane", SpokenWords), PlainLine(SpokenWords) }
ParserInputs ==
    {NullContent, UndefinedContent, NumberContent}
    \cup {Text(l) : l \in SeqsUpTo(ParserLines, MaxLines)}

----------------------------------------------------------------------------
(* Idle values of the three parts of the state *)

NoResponse == [status |-> 0, contentType |-> "", body |-> [kind |-> "none"]]
NaN == [nan |-> TRUE, n |-> 0]
Number(n) == [nan |-> FALSE, n |-> n]
NoRequest == [method |-> "none", body |-> "none", name |-> <<>>, batchMode |-> FALSE,
              fileNames |-> <<>>, outputFormat |-> "json"]

BatchIdle ==
    /\ request = NoRequest
    /\ concurrencyLimit = Number(3)
    /\ pc = "off"
    /\ ci = Number(0)
    /\ batches = <<>>
    /\ batchIndex = 0
    /\ run = <<>>
    /\ fileResults = <<>>
    /\ calls = <<>>
    /\ deployment = [config |-> "ok", vttFiles |-> <<>>]
    /\ value = <<>>
    /\ arrival = <<>>
    /\ results = <<>>
    /\ delays = 0
    /\ response = NoResponse

PipeIdle ==
    /\ penv = BaseEnv
    /\ pformat = "json"
    /\ ppc = "off"
    /\ presult = NoResult
    /\ pcalls = <<>>

LinkIdle ==
    /\ lts = EmptyTs
    /\ lurl = NoUrl
    /\ lpc = "off"
    /\ lout = [created |-> NullLink, enriched |-> NullLink, word |-> NullLink]

NotParsed == [threw |-> FALSE, blocks |-> <<>>]
ParseIdle ==
    /\ vttContent = NullContent
    /\ cpc = "off"
    /\ contentBlocks = NotParsed

NoDownload ==
    [vttContent |-> <<>>, wasTruncated |-> FALSE, forwarded |-> 0, truncated |-> FALSE]
TruncIdle ==
    /\ raw = <<>>
    /\ MAX_CHARS = Number(0)
    /\ dpc = "off"
    /\ download = NoDownload

NoHms == [text |-> <<>>, totalSeconds |-> 0]
TimeIdle ==
    /\ sec = 0
    /\ tpc = "off"
    /\ hms = NoHms

NoHookRes == [status |-> 0, body |-> "none"]
HookIdle ==
    /\ hookReq = [token |-> FALSE, body |-> "none", value |-> <<>>]
    /\ hookEnv = [graphClient |-> FALSE, processEndpoint |-> FALSE]
    /\ hookPc = "off"
    /\ hookIndex = 0
    /\ hookHandled = <<>>
    /\ hookRes = NoHookRes

ToolIdle == ParseIdle /\ TruncIdle /\ TimeIdle /\ HookIdle

----------------------------------------------------------------------------
(* The single-item pipeline on its own *)

PipeInit ==
    /\ BatchIdle /\ LinkIdle /\ ToolIdle
    /\ \/ penv \in SummarizeEnvs /\ pformat = "json"
       \/ penv \in StageEnvs /\ pformat \in Formats
    /\ ppc = "start"
    /\ presult = NoResult
    /\ pcalls = <<>>

PipeRun ==
    /\ ppc = "start"
    /\ presult' = processSingleVttFile(penv, FileA, pformat)
    /\ pcalls' = externalCalls(penv, FileA)
    /\ ppc' = "done"
    /\ UNCHANGED <<penv, pformat, batchVars, linkVars, toolVars>>

PipeNext == PipeRun
PipeSpec == PipeInit /\ [][PipeNext]_vars

----------------------------------------------------------------------------
(* The link builders on their own *)

LinkUrls == Urls \cup {PlaceholderUrl}

LinkInit ==
    /\ BatchIdle /\ PipeIdle /\ ToolIdle
    /\ lts \in Timestamps
    /\ lurl \in LinkUrls
    /\ lpc = "start"
    /\ lout = [created |-> NullLink, enriched |-> NullLink, word |-> NullLink]

BuildLinks ==
    /\ lpc = "start"
    /\ lout' = [created |-> createVideoLink(lts, lurl),
                enriched |-> enrichLink(lts, lurl, EmptyLink),
                word |-> wordViewerUrl(lurl, lts)]
    /\ lpc' = "done"
    /\ UNCHANGED <<lts, lurl, batchVars, pipeVars, toolVars>>

LinkNext == BuildLinks
LinkSpec == LinkInit /\ [][LinkNext]_vars

----------------------------------------------------------------------------
(* parseVttTimestamps on its own *)

ParseInit ==
    /\ BatchIdle /\ PipeIdle /\ LinkIdle /\ TruncIdle /\ TimeIdle /\ HookIdle
    /\ vttContent \in ParserInputs
    /\ cpc = "start"
    /\ contentBlocks = NotParsed

Parse ==
    /\ cpc = "start"
    /\ contentBlocks' = parseVttTimestamps(vttContent)
    /\ cpc' = "done"
    /\ UNCHANGED <<vttContent, batchVars, pipeVars, linkVars, truncVars, timeVars,
                   hookVars>>

ParseNext == Parse
ParseSpec == ParseInit /\ [][ParseNext]_vars

----------------------------------------------------------------------------
(* formatSecondsAsHms and normalizeTimestampToSeconds on their own *)

TimeInit ==
    /\ BatchIdle /\ PipeIdle /\ LinkIdle /\ ParseIdle /\ TruncIdle /\ HookIdle
    /\ sec \in SecondsInputs
    /\ tpc = "start"
    /\ hms = NoHms

FormatAndRead ==
    /\ tpc = "start"
    /\ hms' = [text |-> formatSecondsAsHms(sec),
               totalSeconds |-> normalizeTimestampToSeconds(formatSecondsAsHms(sec))]
    /\ tpc' = "done"
    /\ UNCHANGED <<sec, batchVars, pipeVars, linkVars, parseVars, truncVars,
                   hookVars>>

TimeNext == FormatAndRead
TimeSpec == TimeInit /\ [][TimeNext]_vars

----------------------------------------------------------------------------
(* The HTTP handler and processBatchFiles *)

\* the file names of a request: a prefix of this list
FileNamePool == <<FileA, FileZ, FileB, FileUpperA, FileAB>>
FileNameLists == {Slice(FileNamePool, 0, n) : n \in 0..MaxFiles}

\* Number(process.env.BATCH_CONCURRENCY || 3): a positive count, zero, a
\* negative number, or NaN for a non-numeric setting
ConcurrencyLimits == {NaN, Number(-1), Number(0), Number(1), Number(2), Number(3)}

Requests ==
    [method : {"POST"}, body : {"json"}, name : {<<>>}, batchMode : BOOLEAN,
     fileNames : FileNameLists, outputFormat : Formats]
    \cup [method : {"POST"}, body : {"empty", "invalid"}, name : {<<>>},
          batchMode : {FALSE}, fileNames : {<<>>}, outputFormat : {"json"}]
    \cup [method : {"POST"}, body : {"json"}, name : {FileA}, batchMode : {FALSE},
          fileNames : {<<>>}, outputFormat : {"json"}]
    \cup [method : {"GET"}, body : {"none"}, name : {<<>>, FileA, FileZ},
          batchMode : {FALSE}, fileNames : {<<>>}, outputFormat : {"json", "word"}]

\* what the collaborators answer to the items of a batch
GoodReply ==
    AiReply(SomeTokens, "json",
        [summaryIsString |-> TRUE, summaryLen |-> MinSummaryLength,
         keyPointsIsArray |-> TRUE,
         keyPoints |-> [k \in 1..MinKeyPoints |->
            KeyPoint(AiTitle, <<"00", "01", "05">>, "string", "John", EmptyLink)]])
OneCue == <<[timestamp |-> CueTimestamp,
             content |-> <<Word("Hello"), Word("team.")>>, speaker |-> ""] >>
\* what differs from item to item: the download and the summarization call
ItemEnvs ==
    { [BaseEnv EXCEPT !.blocks = OneCue, !.ai = GoodReply],
      [BaseEnv EXCEPT !.blocks = OneCue, !.ai = AiThrows, !.wordFails = TRUE],
      [BaseEnv EXCEPT !.download = "httperror"],
      [BaseEnv EXCEPT !.download = "nourl"] }
\* what the items of one request share: the configuration and the drive
Deployments ==
    { [config |-> "ok", vttFiles |-> BaseEnv.vttFiles],
      [config |-> "missing", vttFiles |-> BaseEnv.vttFiles],
      [config |-> "ok", vttFiles |-> ManyFiles] }
BatchEnvs ==
    {[e EXCEPT !.config = d.config, !.vttFiles = d.vttFiles] :
        e \in ItemEnvs, d \in Deployments}
\* e answers an item of the request under its configuration and its drive
SameDeployment(e) ==
    e.config = deployment.config /\ e.vttFiles = deployment.vttFiles

\* comparisons and sums of JavaScript numbers that may be NaN
LessThan(a, b) == ~a.nan /\ ~b.nan /\ a.n < b.n
Plus(a, b) == IF a.nan \/ b.nan THEN NaN ELSE Number(a.n + b.n)
\* ToIntegerOrInfinity of a slice bound: NaN is 0
SliceBound(a) == IF a.nan THEN 0 ELSE a.n

Positions(n) == [k \in 1..n |-> k]

\* the .then callback of processBatchFiles
\*   { fileName, success: fileResult.success === true, processingTimeMs, ...fileResult }
thenWrap(fileName, fileResult) ==
    [fileResult EXCEPT
        !.fields = @ \cup {"fileName", "success", "processingTimeMs"},
        !.success = IF "success" \in fileResult.fields THEN fileResult.success ELSE FALSE,
        !.fileName = IF "fileName" \in fileResult.fields THEN fileResult.fileName
                     ELSE fileName]

\* a variant of allSettledValues that orders the values by arrival
allSettledValuesByArrival(batch, settled, order) ==
    LET inBatch(p) == p \in Range(batch)
        arrived == SelectSeq(order, inBatch)
    IN  [k \in 1..Len(arrived) |-> settled[arrived[k]]]

\* the values of Promise.allSettled(batch.map(...)): in the order of batch
allSettledValues(batch, settled, order) ==
    [k \in 1..Len(batch) |-> settled[batch[k]]]

\* results.reduce over r?.metadata?.openaiTokens
RECURSIVE SumTokens(_)
\* a variant of SumTokens that reports the counters of the first item
SumTokensOfFirst(rs) ==
    IF rs # <<>> /\ "metadata" \in Head(rs).fields THEN Head(rs).openaiTokens
    ELSE ZeroTokens

SumTokens(rs) ==
    IF rs = <<>> THEN ZeroTokens
    ELSE LET rest == SumTokens(Tail(rs))
             r == Head(rs)
         IN  IF "metadata" \in r.fields
             THEN [prompt |-> rest.prompt + r.openaiTokens.prompt,
                   completion |-> rest.completion + r.openaiTokens.completion,
                   total |-> rest.total + r.openaiTokens.total]
             ELSE rest

IsSuccess(r) == r.success
CountSuccess(rs) == Len(SelectSeq(rs, IsSuccess))

NoBody ==
    [kind |-> "none", success |-> FALSE, partialSuccess |-> FALSE,
     allSuccess |-> FALSE, processedFiles |-> 0, successfulFiles |-> 0,
     failedFiles |-> 0, results |-> <<>>, openaiTokensTotal |-> ZeroTokens]

\* a variant of batchFlags that reports success only when every item succeeded
batchFlagsAllOrNothing(rs) ==
    LET allSuccess == \A k \in 1..Len(rs) : rs[k].success
    IN  [anySuccess |-> allSuccess, allSuccess |-> allSuccess]

\* the flags of the batch body
batchFlags(rs) ==
    [anySuccess |-> \E k \in 1..Len(rs) : rs[k].success,
     allSuccess |-> \A k \in 1..Len(rs) : rs[k].success]

\* a variant of batchStatus that answers 500 when no item succeeded
batchStatusByOutcome(rs) == IF \E k \in 1..Len(rs) : rs[k].success THEN 200 ELSE 500
batchStatus(rs) == 200

\* the response processBatchFiles builds from its results
batchResponse(rs, outputFormat) ==
    LET flags == batchFlags(rs)
        jsonBody ==
            [NoBody EXCEPT
                !.kind = "json",
                !.success = flags.anySuccess,
                !.partialSuccess = flags.anySuccess /\ ~flags.allSuccess,
                !.allSuccess = flags.allSuccess,
                !.processedFiles = Len(rs),
                !.successfulFiles = CountSuccess(rs),
                !.failedFiles = Len(rs) - CountSuccess(rs),
                !.results = rs,
                !.openaiTokensTotal = SumTokens(rs)]
    IN  CASE outputFormat = "markdown" ->
                [status |-> batchStatus(rs), contentType |-> "text/markdown",
                 body |-> [NoBody EXCEPT !.kind = "markdown", !.results = rs]]
          [] outputFormat = "html" ->
                [status |-> batchStatus(rs), contentType |-> "text/html",
                 body |-> [NoBody EXCEPT !.kind = "html", !.results = rs]]
          [] outputFormat = "summary" ->
                [status |-> batchStatus(rs), contentType |-> "application/json",
                 body |-> [NoBody EXCEPT !.kind = "summary", !.results = rs]]
          [] OTHER ->
                [status |-> batchStatus(rs), contentType |-> "application/json",
                 body |-> jsonBody]

\* the catch of the handler
HandlerError ==
    [status |-> 500, contentType |-> "application/json",
     body |-> [NoBody EXCEPT !.kind = "error"]]

\* a variant of processSingleFile that answers 200 for every wrapped result
processSingleFileAlways200(result) ==
    IF {"status", "headers", "body"} \subseteq result.fields
    THEN [status |-> result.status, contentType |-> "as-returned",
          body |-> [NoBody EXCEPT !.kind = "raw"]]
    ELSE [status |-> 200,
          contentType |-> "application/json",
          body |-> [NoBody EXCEPT !.kind = "result", !.results = <<result>>]]

\* processSingleFile: a result that is an HTTP response is returned as it
\* is, any other is wrapped as JSON
processSingleFile(result) ==
    IF {"status", "headers", "body"} \subseteq result.fields
    THEN [status |-> result.status, contentType |-> "as-returned",
          body |-> [NoBody EXCEPT !.kind = "raw"]]
    ELSE [status |-> IF "status" \in result.fields /\ result.status # 0
                     THEN result.status
                     ELSE IF result.success THEN 200 ELSE 500,
          contentType |-> "application/json",
          body |-> [NoBody EXCEPT !.kind = "result", !.results = <<result>>]]

IsBatch(req) == req.batchMode /\ Len(req.fileNames) > 1
\* fileName || (fileNames.length > 0 ? fileNames[0] : null), <<>> for null
SingleFileOf(req) ==
    IF req.name # <<>> THEN req.name
    ELSE IF Len(req.fileNames) > 0 THEN req.fileNames[1] ELSE <<>>
BadRequest(req) ==
    \/ req.method = "POST" /\ req.body \in {"empty", "invalid"}
    \/ ~IsBatch(req) /\ SingleFileOf(req) = <<>>

CurrentBatch == batches[batchIndex + 1]

Init ==
    /\ PipeIdle /\ LinkIdle /\ ToolIdle
    /\ request \in Requests
    /\ concurrencyLimit \in ConcurrencyLimits
    /\ pc = "handler"
    /\ ci = Number(0)
    /\ batches = <<>>
    /\ batchIndex = 0
    /\ run = <<>>
    /\ fileResults = <<>>
    /\ calls = <<>>
    /\ deployment \in Deployments
    /\ value = <<>>
    /\ arrival = <<>>
    /\ results = <<>>
    /\ delays = 0
    /\ response = NoResponse

\* the handler rejects the request: empty or unparseable body, no file name
RejectRequest ==
    /\ pc = "handler"
    /\ BadRequest(request)
    /\ response' = HandlerError
    /\ pc' = "done"
    /\ UNCHANGED <<request, concurrencyLimit, ci, batches, batchIndex, run,
                   fileResults, calls, deployment, value, arrival, results, delays, pipeVars,
                   linkVars, toolVars>>

\* the handler calls processBatchFiles, which enters chunkArray
EnterBatch ==
    /\ pc = "handler"
    /\ ~BadRequest(request)
    /\ IsBatch(request)
    /\ ci' = Number(0)
    /\ batches' = <<>>
    /\ run' = [p \in 1..Len(request.fileNames) |-> "idle"]
    /\ fileResults' = [p \in 1..Len(request.fileNames) |-> NoResult]
    /\ calls' = [p \in 1..Len(request.fileNames) |-> <<>>]
    /\ deployment' = deployment
    /\ value' = [p \in 1..Len(request.fileNames) |-> NoResult]
    /\ pc' = "chunk"
    /\ UNCHANGED <<request, concurrencyLimit, batchIndex, arrival, results,
                   delays, response, pipeVars, linkVars, toolVars>>

\* one iteration of chunkArray's loop
ChunkStep ==
    /\ pc = "chunk"
    /\ LessThan(ci, Number(Len(request.fileNames)))
    /\ Len(batches) < MaxChunks
    /\ batches' = Append(batches,
            Slice(Positions(Len(request.fileNames)),
                  SliceBound(ci), SliceBound(Plus(ci, concurrencyLimit))))
    /\ ci' = Plus(ci, concurrencyLimit)
    /\ UNCHANGED <<request, concurrencyLimit, pc, batchIndex, run,
                   fileResults, calls, deployment, value, arrival, results, delays, response,
                   pipeVars, linkVars, toolVars>>

\* chunkArray returns
ChunkReturn ==
    /\ pc = "chunk"
    /\ ~LessThan(ci, Number(Len(request.fileNames)))
    /\ batchIndex' = 0
    /\ pc' = "window"
    /\ UNCHANGED <<request, concurrencyLimit, ci, batches, run, fileResults, calls, deployment,
                   value, arrival, results, delays, response, pipeVars,
                   linkVars, toolVars>>

\* batch.map(...): every item of the window is dispatched
StartWindow ==
    /\ pc = "window"
    /\ batchIndex < Len(batches)
    /\ run' = [p \in DOMAIN run |->
                IF p \in Range(CurrentBatch) THEN "running" ELSE run[p]]
    /\ pc' = "await"
    /\ UNCHANGED <<request, concurrencyLimit, ci, batches, batchIndex,
                   fileResults, calls, deployment, value, arrival, results, delays, response,
                   pipeVars, linkVars, toolVars>>

\* one pipeline run settles
Settle(p) ==
    /\ run[p] = "running"
    /\ \E e \in BatchEnvs :
          /\ SameDeployment(e)
          /\ LET fileResult == processSingleVttFile(e, request.fileNames[p],
                                                    request.outputFormat)
             IN  /\ fileResults' = [fileResults EXCEPT ![p] = fileResult]
                 /\ value' = [value EXCEPT ![p] = thenWrap(request.fileNames[p], fileResult)]
                 /\ calls' = [calls EXCEPT ![p] = externalCalls(e, request.fileNames[p])]
    /\ run' = [run EXCEPT ![p] = "settled"]
    /\ arrival' = Append(arrival, p)
    /\ UNCHANGED <<request, concurrencyLimit, pc, ci, batches, batchIndex,
                   deployment, results, delays, response, pipeVars, linkVars,
                   toolVars>>

\* a variant of WindowSettled that leaves the window when one item has settled
WindowSettledEarly ==
    /\ pc = "await"
    /\ CurrentBatch = <<>> \/ \E p \in Range(CurrentBatch) : run[p] = "settled"
    /\ results' = results \o allSettledValues(CurrentBatch, value, arrival)
    /\ IF batchIndex < Len(batches) - 1
       THEN pc' = "delay" /\ UNCHANGED batchIndex
       ELSE pc' = "window" /\ batchIndex' = batchIndex + 1
    /\ UNCHANGED <<request, concurrencyLimit, ci, batches, run, fileResults, calls, deployment,
                   value, arrival, delays, response, pipeVars, linkVars, toolVars>>

\* a variant of WindowSettled that ends the batch at a failed item
WindowSettledAbortOnFailure ==
    /\ pc = "await"
    /\ \A p \in Range(CurrentBatch) : run[p] = "settled"
    /\ results' = results \o allSettledValues(CurrentBatch, value, arrival)
    /\ IF \E p \in Range(CurrentBatch) : ~value[p].success
       THEN pc' = "window" /\ batchIndex' = Len(batches)
       ELSE IF batchIndex < Len(batches) - 1
            THEN pc' = "delay" /\ UNCHANGED batchIndex
            ELSE pc' = "window" /\ batchIndex' = batchIndex + 1
    /\ UNCHANGED <<request, concurrencyLimit, ci, batches, run, fileResults, calls, deployment,
                   value, arrival, delays, response, pipeVars, linkVars, toolVars>>

\* a variant of WindowSettled that goes on to the next window without waiting
WindowSettledNoDelay ==
    /\ pc = "await"
    /\ \A p \in Range(CurrentBatch) : run[p] = "settled"
    /\ results' = results \o allSettledValues(CurrentBatch, value, arrival)
    /\ pc' = "window"
    /\ batchIndex' = batchIndex + 1
    /\ UNCHANGED <<request, concurrencyLimit, ci, batches, run, fileResults, calls,
                   deployment, value, arrival, delays, response, pipeVars, linkVars,
                   toolVars>>

\* Promise.allSettled resolves: the window's values are pushed to results
WindowSettled ==
    /\ pc = "await"
    /\ \A p \in Range(CurrentBatch) : run[p] = "settled"
    /\ results' = results \o allSettledValues(CurrentBatch, value, arrival)
    /\ IF batchIndex < Len(batches) - 1
       THEN pc' = "delay" /\ UNCHANGED batchIndex
       ELSE pc' = "window" /\ batchIndex' = batchIndex + 1
    /\ UNCHANGED <<request, concurrencyLimit, ci, batches, run, fileResults, calls, deployment,
                   value, arrival, delays, response, pipeVars, linkVars, toolVars>>

\* the one-second wait between two windows is over
DelayElapsed ==
    /\ pc = "delay"
    /\ delays' = delays + 1
    /\ batchIndex' = batchIndex + 1
    /\ pc' = "window"
    /\ UNCHANGED <<request, concurrencyLimit, ci, batches, run, fileResults, calls, deployment,
                   value, arrival, results, response, pipeVars, linkVars, toolVars>>

\* the loop over the windows is over: the response is built and returned
Respond ==
    /\ pc = "window"
    /\ batchIndex >= Len(batches)
    /\ response' = batchResponse(results, request.outputFormat)
    /\ pc' = "done"
    /\ UNCHANGED <<request, concurrencyLimit, ci, batches, batchIndex, run,
                   fileResults, calls, deployment, value, arrival, results, delays, pipeVars,
                   linkVars, toolVars>>

\* the handler processes a single file
SingleFile ==
    /\ pc = "handler"
    /\ ~BadRequest(request)
    /\ ~IsBatch(request)
    /\ \E e \in BatchEnvs :
          /\ SameDeployment(e)
          /\ response' = processSingleFile(
              processSingleVttFile(e, SingleFileOf(request), request.outputFormat))
          /\ calls' = <<externalCalls(e, SingleFileOf(request))>>
    /\ pc' = "done"
    /\ UNCHANGED <<request, concurrencyLimit, ci, batches, batchIndex, run,
                   fileResults, deployment, value, arrival, results, delays, pipeVars,
                   linkVars, toolVars>>

Next ==
    \/ RejectRequest
    \/ EnterBatch
    \/ ChunkStep
    \/ ChunkReturn
    \/ StartWindow
    \/ \E p \in DOMAIN run : Settle(p)
    \/ WindowSettled
    \/ DelayElapsed
    \/ Respond
    \/ SingleFile

Spec == Init /\ [][Next]_vars /\ WF_vars(Next)

----------------------------------------------------------------------------
(* The download of the text and its cut to MAX_VTT_CHARS, character by
   character: a text is the sequence of its characters *)

MaxRawLines == 2    \* most lines of a downloaded text

\* \d and \s of the patterns
Digit(c) == c \in {"0", "1", "2", "3", "4", "5", "6", "7", "8", "9"}
Space(c) == c \in {" ", "\t", "\r"}

\* the characters joined into a string
RECURSIVE Cat(_)
Cat(cs) == IF cs = <<>> THEN "" ELSE Head(cs) \o Cat(Tail(cs))

\* String.prototype.trim
trim(cs) ==
    LET keep == {k \in 1..Len(cs) : ~Space(cs[k])}
    IN  IF keep = {} THEN <<>>
        ELSE SubSeq(cs, CHOOSE k \in keep : \A j \in keep : k <= j,
                        CHOOSE k \in keep : \A j \in keep : k >= j)

\* vttContent.split(/\r?\n/)
RECURSIVE split(_, _)
split(cs, cur) ==
    IF cs = <<>> THEN <<cur>>
    ELSE IF Head(cs) = "\n"
    THEN <<IF cur # <<>> /\ cur[Len(cur)] = "\r" THEN SubSeq(cur, 1, Len(cur) - 1)
           ELSE cur>> \o split(Tail(cs), <<>>)
    ELSE split(Tail(cs), Append(cur, Head(cs)))

\* \d{2}:\d{2}:\d{2} at position i
TimeAt(cs, i) ==
    /\ i >= 1 /\ i + 7 <= Len(cs)
    /\ Digit(cs[i]) /\ Digit(cs[i + 1]) /\ cs[i + 2] = ":"
    /\ Digit(cs[i + 3]) /\ Digit(cs[i + 4]) /\ cs[i + 5] = ":"
    /\ Digit(cs[i + 6]) /\ Digit(cs[i + 7])

\* the first position from i on that holds no white space
RECURSIVE SkipSpaces(_, _)
SkipSpaces(cs, i) ==
    IF i <= Len(cs) /\ Space(cs[i]) THEN SkipSpaces(cs, i + 1) ELSE i

\* the range pattern of the parser matches with its first time at i and
\* m digits of milliseconds
RangeAt(cs, i, m) ==
    /\ TimeAt(cs, i)
    /\ m > 0 => /\ i + 8 + m <= Len(cs)
                /\ cs[i + 8] = "."
                /\ \A k \in (i + 9)..(i + 8 + m) : Digit(cs[k])
    /\ LET arrow == SkipSpaces(cs, i + 8 + (IF m = 0 THEN 0 ELSE m + 1))
       IN  /\ arrow + 2 <= Len(cs)
           /\ cs[arrow] = "-" /\ cs[arrow + 1] = "-" /\ cs[arrow + 2] = ">"
           /\ TimeAt(cs, SkipSpaces(cs, arrow + 3))

\* raw.match of the range pattern: the position of the leftmost match, or 0
rangeMatch(cs) ==
    LET starts == {i \in 1..Len(cs) : \E m \in 0..3 : RangeAt(cs, i, m)}
    IN  IF starts = {} THEN 0 ELSE CHOOSE i \in starts : \A j \in starts : i <= j

\* "</v>" at position e, in either case
CloseAt(cs, e) ==
    /\ e >= 1 /\ e + 3 <= Len(cs)
    /\ cs[e] = "<" /\ cs[e + 1] = "/" /\ cs[e + 2] \in {"v", "V"} /\ cs[e + 3] = ">"

\* raw.match(/<v\s+([^>]+)>(.+)<\/v>/i): [from, gt, close] with the opening
\* "<v" at from, its ">" at gt and the last "</v>" at close; from = 0 when
\* there is no match
vTag(cs) ==
    LET opens ==
            {i \in 1..Len(cs) :
                /\ i + 3 <= Len(cs)
                /\ cs[i] = "<" /\ cs[i + 1] \in {"v", "V"} /\ Space(cs[i + 2])
                /\ \E g \in (i + 4)..Len(cs) :
                      /\ cs[g] = ">"
                      /\ \A k \in (i + 2)..(g - 1) : cs[k] # ">"
                      /\ \E e \in (g + 2)..Len(cs) : CloseAt(cs, e)}
    IN  IF opens = {} THEN [from |-> 0, gt |-> 0, close |-> 0]
        ELSE LET i == CHOOSE a \in opens : \A b \in opens : a <= b
                 g == CHOOSE a \in (i + 4)..Len(cs) :
                        cs[a] = ">" /\ \A k \in (i + 2)..(a - 1) : cs[k] # ">"
                 e == CHOOSE a \in (g + 2)..Len(cs) :
                        CloseAt(cs, a)
                        /\ \A b \in (g + 2)..Len(cs) : CloseAt(cs, b) => b <= a
             IN  [from |-> i, gt |-> g, close |-> e]

\* raw.match(/^([^:]{1,40}):\s*(.+)/): the position of the colon, or 0
colonSpeaker(cs) ==
    LET colons == {k \in 1..Len(cs) : cs[k] = ":"}
        c == CHOOSE k \in colons : \A j \in colons : k <= j
    IN  IF colons = {} THEN 0
        ELSE IF c >= 2 /\ c <= 41 /\ c < Len(cs) THEN c ELSE 0

\* n characters of text that hold no line break
Piece(n) == [ts |-> FALSE, w |-> "chars", n |-> n]

\* what the loop of parseVttTimestamps makes of one line of the text
ReadLine(line) ==
    LET cs == trim(line)
        r == rangeMatch(cs)
        v == vTag(cs)
        c == colonSpeaker(cs)
    IN  IF r # 0
        THEN MarkerLine(<<cs[r] \o cs[r + 1], cs[r + 3] \o cs[r + 4],
                          cs[r + 6] \o cs[r + 7]>>)
        ELSE IF cs = <<>> THEN BlankLine
        ELSE IF v.from # 0
        THEN VTagLine(Cat(trim(SubSeq(cs, v.from + 2, v.gt - 1))),
                      <<Piece(Len(trim(SubSeq(cs, v.gt + 1, v.close - 1))))>>)
        ELSE IF c # 0
        THEN ColonLine(Cat(trim(SubSeq(cs, 1, c - 1))),
                       <<Piece(Len(trim(SubSeq(cs, c + 1, Len(cs)))))>>)
        ELSE PlainLine(<<Piece(Len(cs))>>)

\* the text as parseVttTimestamps sees it
ReadText(cs) ==
    IF cs = <<>> THEN Text(<<>>)
    ELSE LET lines == split(cs, <<>>)
         IN  Text([k \in 1..Len(lines) |-> ReadLine(lines[k])])

\* transcriptText.length: "HH:MM:SS", a space and the content of every
\* block, the blocks joined by line breaks
RECURSIVE transcriptLength(_)
transcriptLength(timestampBlocks) ==
    IF timestampBlocks = <<>> THEN 0
    ELSE WordLen(TsTok) + 1 + JoinedLen(Head(timestampBlocks).content)
         + (IF Tail(timestampBlocks) = <<>> THEN 0 ELSE 1)
         + transcriptLength(Tail(timestampBlocks))

DefaultMaxVttChars == 32000

\* wasTruncated = raw.length > MAX_CHARS
wasTruncated(text, max) == LessThan(max, Number(Len(text)))

\* a variant of cutToBudget that keeps the whole text
cutToBudgetKeepAll(text, max) == text

\* wasTruncated ? raw.slice(0, MAX_CHARS) : raw
cutToBudget(text, max) ==
    IF wasTruncated(text, max) THEN Slice(text, 0, SliceBound(max)) ELSE text

\* the lines the downloaded texts are made of
RawLines ==
    { <<"0", "0", ":", "0", "1", ":", "0", "5", ".", "0", "0", "0", " ", "-", "-", ">", " ", "0", "0", ":", "0", "1", ":", "1", "0", ".", "0", "0", "0">>,
      <<"0", "0", ":", "0", "0", ":", "0", "5", "-", "-", ">", "0", "0", ":", "0", "0", ":", "0", "9">>,
      <<"<", "v", " ", "J", "o", "h", "n", ">", "H", "i", " ", "a", "l", "l", "<", "/", "v", ">">>,
      <<"J", "a", "n", "e", ":", " ", "H", "i">>,
      <<"W", "E", "B", "V", "T", "T">>,
      <<>> }

\* lines joined by line breaks
RECURSIVE JoinLines(_)
JoinLines(lines) ==
    IF lines = <<>> THEN <<>>
    ELSE IF Tail(lines) = <<>> THEN Head(lines)
    ELSE Head(lines) \o <<"\n">> \o JoinLines(Tail(lines))

RawTexts == {JoinLines(l) : l \in SeqsUpTo(RawLines, MaxRawLines)}

\* Number(process.env.MAX_VTT_CHARS || 32000): unset, a text that is no
\* number, a negative number, and every budget up to the longest text
Budgets ==
    {Number(DefaultMaxVttChars), NaN, Number(-1)}
    \cup {Number(n) : n \in 0..(30 * MaxRawLines)}

TruncInit ==
    /\ BatchIdle /\ PipeIdle /\ LinkIdle /\ ParseIdle /\ TimeIdle /\ HookIdle
    /\ raw \in RawTexts
    /\ MAX_CHARS \in Budgets
    /\ dpc = "fetch"
    /\ download = NoDownload

\* response.text() has resolved: the flag and the cut
DownloadText ==
    /\ dpc = "fetch"
    /\ download' = [download EXCEPT
            !.wasTruncated = wasTruncated(raw, MAX_CHARS),
            !.vttContent = cutToBudget(raw, MAX_CHARS)]
    /\ dpc' = "downloaded"
    /\ UNCHANGED <<raw, MAX_CHARS, batchVars, pipeVars, linkVars, parseVars,
                   timeVars, hookVars>>

\* the parse, the transcript for the prompt and the metadata
BuildTranscript ==
    /\ dpc = "downloaded"
    /\ download' = [download EXCEPT
            !.forwarded = transcriptLength(
                              parseVttTimestamps(ReadText(download.vttContent)).blocks),
            !.truncated = download.wasTruncated]
    /\ dpc' = "forwarded"
    /\ UNCHANGED <<raw, MAX_CHARS, batchVars, pipeVars, linkVars, parseVars,
                   timeVars, hookVars>>

TruncNext == DownloadText \/ BuildTranscript
TruncSpec == TruncInit /\ [][TruncNext]_vars

----------------------------------------------------------------------------
(* Claims about the batch orchestrator *)

\* processBatchFiles has returned its response to the handler
BatchDone == pc = "done" /\ IsBatch(request) /\ ~BadRequest(request)

\* the pipeline resolved with a failure result for input position p
ItemFailed(p) ==
    /\ run[p] = "settled"
    /\ "success" \in fileResults[p].fields
    /\ ~fileResults[p].success

\* C1: for every list of file names and every completion order, the batch
\* result holds exactly one item per input and results[i] is the outcome of
\* fileNames[i]
C1_ResultsMatchInputs ==
    BatchDone =>
        /\ Len(results) = Len(request.fileNames)
        /\ \A k \in 1..Len(results) :
              run[k] = "settled" /\ results[k] = value[k]

\* C2: an item whose pipeline returned a failure result is recorded with
\* success = false and a populated error; once the batch has returned, every
\* item of the request has been processed and recorded; and after a failure
\* the batch does return
C2_FailureIsolated ==
    /\ [](\A p \in DOMAIN run :
            ItemFailed(p) =>
                /\ ~value[p].success
                /\ "error" \in value[p].fields /\ value[p].error # ""
                /\ BatchDone =>
                      /\ \A q \in DOMAIN run : run[q] = "settled"
                      /\ Len(results) = Len(request.fileNames)
                      /\ results[p] = value[p])
    /\ ((\E p \in DOMAIN run : ItemFailed(p)) ~> BatchDone)

C2_Witness ==
    /\ BatchDone
    /\ Len(batches) >= 2
    /\ ItemFailed(1)
    /\ \E q \in DOMAIN run : q # 1 /\ value[q].success
    /\ ~results[1].success

\* C3: a batch request returns HTTP status 200 for every combination of
\* per-item outcomes, also when every item failed
C3_BatchStatus200 == BatchDone => response.status = 200

C3_Witness ==
    /\ BatchDone
    /\ Len(results) >= 2
    /\ \A k \in 1..Len(results) : ~results[k].success
    /\ response.status = 200

WindowOf(p) ==
    LET ws == {k \in 1..Len(batches) : p \in Range(batches[k])}
    IN  IF ws = {} THEN 0 ELSE CHOOSE k \in ws : TRUE
Running == {p \in DOMAIN run : run[p] = "running"}

\* C5: no item of a later window is dispatched before every item of the
\* earlier windows has settled, and the number of pipeline runs in flight
\* never exceeds concurrencyLimit
C5_WindowBound ==
    /\ Running # {} =>
          ~concurrencyLimit.nan /\ Cardinality(Running) <= concurrencyLimit.n
    /\ \A p \in DOMAIN run, q \in DOMAIN run :
          (run[p] # "idle" /\ WindowOf(q) < WindowOf(p)) => run[q] = "settled"

C5_Witness ==
    /\ concurrencyLimit = Number(2)
    /\ Cardinality(Running) = 2
    /\ \E p \in DOMAIN run : run[p] = "idle" /\ WindowOf(p) = 2

----------------------------------------------------------------------------
(* Claims about the summarization step and the key points *)

\* the run got as far as the summarization step
ReachedSummarization ==
    /\ ppc = "done"
    /\ penv.config = "ok" /\ penv.drive = "ok"
    /\ selectTarget(penv.vttFiles, FileA) # 0
    /\ penv.download = "ok"

AiCallThrew == penv.ai.outcome = "throws"
AiReplyUndecodable ==
    penv.ai.outcome = "response" /\ penv.ai.content.form \in {"empty", "garbage"}

\* the key points the model returned, and whether they were kept
GivenKeyPoints == aiStage(penv.ai).keyPoints
KeyPointsFromModel == ~KeyPointsDeficient(GivenKeyPoints)
HasKeyPoints == ppc = "done" /\ "keyPoints" \in presult.fields

\* C6: for a non-empty parsed transcript and every outcome of the
\* summarization call, no exception escapes the summarization step and the
\* item ends with a non-empty summary and at least one key point
C6_SummaryAndKeyPoint ==
    (ReachedSummarization /\ penv.blocks # <<>> /\ pformat = "json") =>
        /\ presult.success
        /\ presult.summary.len > 0
        /\ Len(presult.keyPoints) >= 1

\* C7 as claimed: when the call fails or its reply cannot be decoded, the
\* usage counters of the item are all zero
C7_FallbackZeroUsage ==
    (ReachedSummarization /\ "metadata" \in presult.fields
        /\ (AiCallThrew \/ AiReplyUndecodable)) =>
        presult.openaiTokens = ZeroTokens

\* C7 as amended: the usage counters are all zero when the call throws, and
\* are the usage the reply reports whenever a reply arrives, decodable or not
C7_UsageAsReported ==
    (ReachedSummarization /\ "metadata" \in presult.fields) =>
        /\ AiCallThrew => presult.openaiTokens = ZeroTokens
        /\ ~AiCallThrew => presult.openaiTokens = penv.ai.usage

C7_Witness ==
    /\ ReachedSummarization /\ "metadata" \in presult.fields
    /\ AiCallThrew
    /\ presult.summary.src = "transcript"
    /\ Len(presult.keyPoints) >= 1
    /\ presult.openaiTokens = ZeroTokens

CarriedOrEmpty(point) ==
    IF LinkTruthy(point.videoLink) THEN point.videoLink ELSE EmptyLink

\* C8 as claimed: every key point with an empty timestamp has an empty
\* videoLink, whichever path produced it
C8_EmptyTimestampEmptyLink ==
    HasKeyPoints =>
        \A k \in 1..Len(presult.keyPoints) :
            presult.keyPoints[k].timestamp = EmptyTs =>
                presult.keyPoints[k].videoLink = EmptyLink

\* C8 as amended: a key point with an empty timestamp has an empty videoLink
\* when the fallback produced it, and the link the model response gave it
\* (empty when it gave none) when the model produced it
C8_EmptyTimestampKeepsGivenLink ==
    HasKeyPoints =>
        \A k \in 1..Len(presult.keyPoints) :
            presult.keyPoints[k].timestamp = EmptyTs =>
                presult.keyPoints[k].videoLink =
                    IF KeyPointsFromModel THEN CarriedOrEmpty(GivenKeyPoints[k])
                    ELSE EmptyLink

C8_Witness ==
    /\ HasKeyPoints
    /\ KeyPointsFromModel
    /\ \E k \in 1..Len(presult.keyPoints) :
          /\ presult.keyPoints[k].timestamp = EmptyTs
          /\ presult.keyPoints[k].videoLink = AiLink
    /\ \E k \in 1..Len(presult.keyPoints) :
          /\ presult.keyPoints[k].timestamp = EmptyTs
          /\ presult.keyPoints[k].videoLink = EmptyLink

\* C9 as claimed: enrichment keeps the link of a key point that carries
\* one, and computes a link only for the key points that carry none
C9_CarriedLinkKept ==
    (HasKeyPoints /\ KeyPointsFromModel) =>
        \A k \in 1..Len(presult.keyPoints) :
            presult.keyPoints[k].videoLink =
                IF LinkTruthy(GivenKeyPoints[k].videoLink)
                THEN GivenKeyPoints[k].videoLink
                ELSE IF GivenKeyPoints[k].timestamp # EmptyTs
                     THEN FragmentLink(presult.videoUrl,
                                       hmsFragment(GivenKeyPoints[k].timestamp))
                     ELSE EmptyLink

\* C9 as amended: enrichment computes the link of every key point that has
\* a timestamp from that timestamp and the resolved video URL, replacing a
\* link the point carried; a key point without timestamp keeps the link it
\* carries
C9_TimestampLinkWins ==
    (HasKeyPoints /\ KeyPointsFromModel) =>
        \A k \in 1..Len(presult.keyPoints) :
            presult.keyPoints[k].videoLink =
                IF GivenKeyPoints[k].timestamp # EmptyTs
                THEN FragmentLink(presult.videoUrl,
                                  hmsFragment(GivenKeyPoints[k].timestamp))
                ELSE CarriedOrEmpty(GivenKeyPoints[k])

C9_Witness ==
    /\ HasKeyPoints /\ KeyPointsFromModel
    /\ \E k \in 1..Len(presult.keyPoints) :
          /\ GivenKeyPoints[k].videoLink = AiLink
          /\ GivenKeyPoints[k].timestamp # EmptyTs
          /\ presult.keyPoints[k].videoLink.kind = "fragment"

----------------------------------------------------------------------------
(* Claims about the link builders *)

LinksBuilt == lpc = "done"
LinkInputMissing == lts = EmptyTs \/ lurl = NoUrl

HhMmSs(ts) ==
    << [v |-> ts[1], u |-> "h"], [v |-> ts[2], u |-> "m"], [v |-> ts[3], u |-> "s"] >>

\* C11: for a timestamp HH:MM:SS and a non-empty video URL the link is the
\* URL followed by #t=HHhMMmSSs, from createVideoLink and from the link
\* expression the pipeline applies to its key points
C11_LinkIsHhMmSs ==
    (LinksBuilt /\ Len(lts) = 3 /\ lurl # NoUrl) =>
        /\ lout.created = FragmentLink(lurl, HhMmSs(lts))
        /\ lout.enriched = FragmentLink(lurl, HhMmSs(lts))

C11_Witness ==
    /\ LinksBuilt
    /\ lts = <<"01", "05", "00">>
    /\ lurl = [host |-> "sharepoint", query |-> FALSE]
    /\ lout.enriched = FragmentLink(lurl, HhMmSs(lts))
    /\ lout.enriched.frag[3] = [v |-> "00", u |-> "s"]

----------------------------------------------------------------------------
(* Claims about parseVttTimestamps *)

Parsed == cpc = "done"
ParsedText == Parsed /\ vttContent.kind = "text"
NoMarkerLine(lines) == \A k \in 1..Len(lines) : lines[k].kind # "marker"

\* C12: parseVttTimestamps returns the empty sequence, and does not raise,
\* for null, undefined and the empty string and for every text without a
\* time-range marker line
C12_NoCuesWithoutMarker ==
    (Parsed /\ \/ vttContent.kind \in {"null", "undefined"}
               \/ vttContent.kind = "text" /\ NoMarkerLine(vttContent.lines)) =>
        contentBlocks = [threw |-> FALSE, blocks |-> <<>>]

C12_Witness ==
    /\ ParsedText
    /\ Len(vttContent.lines) >= 2
    /\ NoMarkerLine(vttContent.lines)
    /\ \E k \in 1..Len(vttContent.lines) : vttContent.lines[k].kind = "plain"
    /\ contentBlocks = [threw |-> FALSE, blocks |-> <<>>]

\* C13: for every input the cues parseVttTimestamps returns are in
\* non-decreasing order of their start timestamps
C13_CuesInTimeOrder ==
    Parsed =>
        \A j, k \in 1..Len(contentBlocks.blocks) :
            j < k => tsSeconds(contentBlocks.blocks[j].timestamp)
                        <= tsSeconds(contentBlocks.blocks[k].timestamp)

\* C14: parseVttTimestamps emits no cue whose text is empty
C14_NoEmptyCue ==
    Parsed =>
        \A k \in 1..Len(contentBlocks.blocks) :
            contentBlocks.blocks[k].content # <<>>

\* the positions of the marker lines of a text, and the content lines that
\* follow the marker at position i up to the next marker or blank line
MarkerPositions(lines) ==
    LET isMarker(i) == lines[i].kind = "marker"
    IN  SelectSeq(Positions(Len(lines)), isMarker)
BodyOf(lines, i) ==
    LET stops == {j \in (i + 1)..Len(lines) : lines[j].kind \in {"marker", "blank"}}
        end == IF stops = {} THEN Len(lines) + 1
               ELSE CHOOSE j \in stops : \A o \in stops : j <= o
    IN  [j \in 1..(end - i - 1) |-> lines[i + j]]
IsTagLine(line) == line.kind \in {"vtag", "vopen"}
IsColonLine(line) == line.kind = "colon"

\* C15: a cue whose content carries a speaker tag <v Name> before its text,
\* closed by </v> or not, has that name as speaker and no tag markup in its
\* text; a cue without speaker tag and without "Name:" prefix has speaker
\* null
C15_SpeakerFromTag ==
    ParsedText =>
        LET lines == vttContent.lines
            markers == MarkerPositions(lines)
            blocks == contentBlocks.blocks
        IN  /\ Len(blocks) = Len(markers)
            /\ \A k \in 1..Len(blocks) :
                  LET body == BodyOf(lines, markers[k])
                      tags == SelectSeq(body, IsTagLine)
                  IN  /\ tags # <<>> =>
                            /\ blocks[k].speaker = tags[Len(tags)].speaker
                            /\ \A t \in 1..Len(blocks[k].content) :
                                  ~IsMarkup(blocks[k].content[t])
                      /\ (tags = <<>> /\ SelectSeq(body, IsColonLine) = <<>>) =>
                            blocks[k].speaker = NoSpeaker

----------------------------------------------------------------------------
(* Claims about the seconds helpers *)

\* C16: formatting a non-negative whole number of seconds as HH:MM:SS and
\* reading it back gives the same number
C16_SecondsRoundTrip ==
    tpc = "done" => hms.totalSeconds = sec

C16_Witness ==
    /\ tpc = "done"
    /\ sec = 100 * 3600 + 59 * 60 + 59
    /\ hms.text = << <<1, 0, 0>>, <<5, 9>>, <<5, 9>> >>
    /\ hms.totalSeconds = sec

----------------------------------------------------------------------------
(* Claims about the resolved video URL and the outer status *)

HasVideoUrl == ppc = "done" /\ "videoUrl" \in presult.fields

\* C17 as claimed: the resolved viewer URL is built from the site base or
\* is empty; it is never the placeholder-domain URL, also when no site URL
\* is configured
C17_NeverPlaceholder ==
    HasVideoUrl => presult.videoUrl # PlaceholderUrl

\* C17 as amended: the resolved viewer URL is built from the configured
\* site base when there is one and is the placeholder-domain URL when no
\* site URL is configured; it is never empty
C17_PlaceholderWithoutSiteUrl ==
    HasVideoUrl =>
        /\ presult.videoUrl # NoUrl
        /\ penv.siteUrl = NoUrl => presult.videoUrl = PlaceholderUrl
        /\ penv.siteUrl # NoUrl =>
              /\ presult.videoUrl.host = penv.siteUrl.host
              /\ presult.videoUrl # PlaceholderUrl

C17_Witness ==
    /\ HasVideoUrl
    /\ penv.siteUrl = NoUrl
    /\ presult.videoUrl = PlaceholderUrl
    /\ \E k \in 1..Len(presult.keyPoints) :
          /\ presult.keyPoints[k].videoLink.kind = "fragment"
          /\ presult.keyPoints[k].videoLink.base = PlaceholderUrl

Responded == pc = "done"
SingleItemAnswer ==
    Responded /\ ~BadRequest(request) /\ ~IsBatch(request)
        /\ response.body.kind = "result"
ConfigErrorItem(r) == ~r.success /\ r.error = "Missing required configuration"

\* C18 as claimed: the outer status is outside 2xx only for a request that
\* cannot be parsed or for a configuration error, in single-file mode as
\* in batch mode
C18_OuterErrorOnlyForConfigOrRequest ==
    (Responded /\ response.status \notin 200..299) =>
        \/ BadRequest(request)
        \/ SingleItemAnswer /\ ConfigErrorItem(response.body.results[1])

\* C18 as amended: a request that cannot be parsed or names no file is
\* answered 500; a batch is answered 200 whatever its items report; a
\* single-file request is answered with the status of its item: 200 for a
\* success, 404 for a file not found, 502 for a missing download URL and
\* 500 for every other failure
C18_OuterStatusIsItemStatus ==
    Responded =>
        /\ BadRequest(request) => response.status = 500
        /\ (~BadRequest(request) /\ IsBatch(request)) => response.status = 200
        /\ SingleItemAnswer =>
              LET r == response.body.results[1]
              IN  response.status =
                    IF r.success THEN 200
                    ELSE IF r.error = "File not found" THEN 404
                    ELSE IF r.error = "Download URL not available" THEN 502
                    ELSE 500

C18_Witness ==
    /\ SingleItemAnswer
    /\ response.body.results[1].error = "File not found"
    /\ response.status = 404

-----------------------------------------------------------------------------
(* Claims about an item that names no file of the drive *)

\* the name asked for at input position p matches no file of the drive,
\* neither exactly nor as a part, and the pipeline got as far as the search
NameNotFound(p) ==
    /\ deployment.config = "ok"
    /\ selectTarget(deployment.vttFiles, request.fileNames[p]) = 0

\* what the pipeline can resolve with for input position p when it runs alone
AloneOutcomes(p) ==
    {processSingleVttFile(e, request.fileNames[p], request.outputFormat) :
        e \in {b \in BatchEnvs : SameDeployment(b)}}

\* C19: an item whose name matches no file of the drive is recorded with
\* success = false, status 404 and the names of the drive's files, ten at
\* most; every item of the batch, next to it or not, has one of the outcomes
\* its own pipeline run yields
C19_NotFoundItem ==
    (IsBatch(request) /\ ~BadRequest(request)) =>
        \A p \in DOMAIN run :
            run[p] = "settled" =>
                /\ fileResults[p] \in AloneOutcomes(p)
                /\ value[p] = thenWrap(request.fileNames[p], fileResults[p])
                /\ NameNotFound(p) =>
                      /\ {"success", "status", "availableFiles"} \subseteq value[p].fields
                      /\ ~value[p].success
                      /\ value[p].status = 404
                      /\ Len(value[p].availableFiles) <= MaxAvailableFiles
                      /\ value[p].availableFiles =
                            Slice(deployment.vttFiles, 0, MaxAvailableFiles)

C19_Witness ==
    /\ BatchDone
    /\ Len(deployment.vttFiles) > MaxAvailableFiles
    /\ \E p, q \in DOMAIN run :
          /\ p < q
          /\ NameNotFound(p)
          /\ value[p].status = 404
          /\ Len(value[p].availableFiles) = MaxAvailableFiles
          /\ ~NameNotFound(q)
          /\ value[q].success
          /\ results[q] = value[q]

-----------------------------------------------------------------------------
(* Claims about the character budget of the transcript *)

\* the transcript for the prompt has been built
Forwarded == dpc = "forwarded"

\* MAX_VTT_CHARS holds a count of characters
IsBudget(max) == ~max.nan /\ max.n >= 0

-----------------------------------------------------------------------------
(* Claims about the aggregate of the batch *)

\* the usage counters an item of the batch carries: metadata.openaiTokens,
\* nothing when the item has no metadata
ItemTokens(r) == IF "metadata" \in r.fields THEN r.openaiTokens ELSE ZeroTokens

\* the sum of one counter over the items up to position n
RECURSIVE CounterSum(_, _, _)
CounterSum(rs, counter, n) ==
    IF n = 0 THEN 0 ELSE CounterSum(rs, counter, n - 1) + ItemTokens(rs[n])[counter]

\* the batch answered with the JSON body that holds metadata.openaiTokensTotal
JsonBatchDone == BatchDone /\ response.body.kind = "json"

\* C21: openaiTokensTotal of the batch body equals, for prompt, completion
\* and total, the sum of the counters of the items of the batch
C21_TokensAreSummed ==
    JsonBatchDone =>
        \A counter \in {"prompt", "completion", "total"} :
            response.body.openaiTokensTotal[counter]
                = CounterSum(response.body.results, counter,
                             Len(response.body.results))

C21_Witness ==
    /\ JsonBatchDone
    /\ Len(response.body.results) >= 3
    /\ \E j, k \in 1..Len(response.body.results) :
          /\ j # k
          /\ ItemTokens(response.body.results[j]).total > 0
          /\ ItemTokens(response.body.results[k]).total > 0
    /\ \E k \in 1..Len(response.body.results) : ~response.body.results[k].success
    /\ response.body.openaiTokensTotal.total > SomeTokens.total
    /\ response.body.openaiTokensTotal.prompt > response.body.openaiTokensTotal.completion

-----------------------------------------------------------------------------
(* Claims about the order of the key points *)

\* C22: the key points of a returned result are in the order of their
\* timestamps, and the key points without a timestamp come after all those
\* that have one
C22_KeyPointsChronological ==
    HasKeyPoints =>
        \A j, k \in 1..Len(presult.keyPoints) :
            j < k =>
                LET a == presult.keyPoints[j]
                    b == presult.keyPoints[k]
                IN  /\ (a.tsKind = "string" /\ b.tsKind = "string"
                          /\ a.timestamp # EmptyTs /\ b.timestamp # EmptyTs)
                       => tsSeconds(a.timestamp) <= tsSeconds(b.timestamp)
                    /\ (a.tsKind = "string" /\ b.tsKind = "string"
                          /\ a.timestamp = EmptyTs)
                       => b.timestamp = EmptyTs

-----------------------------------------------------------------------------
(* Claims about a failure of the output format *)

\* the errors of the steps before the formatting step, and of the outer catch
StepErrors ==
    {"Missing required configuration", "Error fetching drive items",
     "File not found", "Download URL not available",
     "Error downloading VTT file", "Error parsing VTT timestamps",
     "Error extracting meeting metadata", "TypeError"}

\* the run built its result and the construction of the output format threw
FormatThrew ==
    /\ ReachedSummarization
    /\ ~enrichThrows(GivenKeyPoints, metadataVideoUrl(penv.siteUrl))
    /\ applyOutputFormat(BaseResult, pformat, penv.wordFails).threw

\* C23: when the construction of the output format throws, the pipeline
\* returns a failure result (success false, status 500) whose error names the
\* formatting step; no other step reports that error
C23_FormatFailureIsStructured ==
    /\ FormatThrew =>
          /\ {"success", "status", "error"} \subseteq presult.fields
          /\ ~presult.success
          /\ presult.status = 500
          /\ presult.error = "Error formatting output"
          /\ presult.error \notin StepErrors
    /\ (ppc = "done" /\ presult.error = "Error formatting output") => FormatThrew

C23_Witness ==
    /\ FormatThrew
    /\ pformat = "word" /\ penv.wordFails
    /\ penv.blocks # <<>>
    /\ presult.error = "Error formatting output"
    /\ ~presult.success

-----------------------------------------------------------------------------
(* Claims about the calls to the collaborators *)

IsSummarization(call) == call = "summarization"
SummarizationCalls == Len(SelectSeq(pcalls, IsSummarization))

\* C24: a run makes at most one call to the summarization service, exactly
\* one when it got past download, parsing and metadata extraction; when the
\* call throws the run goes on with the fallback summary and key points
C24_OneSummarizationCall ==
    ppc = "done" =>
        /\ SummarizationCalls <= 1
        /\ SummarizationCalls = 1 <=> ReachedSummarization
        /\ (ReachedSummarization /\ AiCallThrew /\ pformat = "json") =>
              /\ presult.success
              /\ presult.summary = generateFallbackSummary(transcriptText(penv.blocks))
              /\ presult.keyPoints =
                    fallbackKeyPoints(transcriptText(penv.blocks), penv.blocks,
                                      metadataVideoUrl(penv.siteUrl))

C24_Witness ==
    /\ ppc = "done"
    /\ ReachedSummarization /\ AiCallThrew /\ pformat = "json"
    /\ penv.blocks # <<>>
    /\ pcalls = <<"listing", "details", "download", "summarization">>
    /\ presult.success
    /\ Len(presult.keyPoints) >= 1

\* C25: when a required configuration value is missing, no item of the
\* request lists the drive, downloads a file or calls the summarization
\* service, and every item that ran failed on the configuration
C25_NoCallsWithoutConfig ==
    deployment.config = "missing" =>
        /\ \A p \in DOMAIN calls : calls[p] = <<>>
        /\ \A p \in DOMAIN run :
              run[p] = "settled" =>
                  /\ ~fileResults[p].success
                  /\ fileResults[p].error = "Missing required configuration"

C25_Witness ==
    /\ BatchDone
    /\ deployment.config = "missing"
    /\ Len(calls) = MaxFiles
    /\ \A p \in DOMAIN run : run[p] = "settled" /\ calls[p] = <<>>
    /\ Len(batches) >= 2

-----------------------------------------------------------------------------
(* Claims about the backfill of the summary and of the key points *)

\* the summary the model returned: NoSummary when the call threw, the reply
\* could not be decoded or its summary is not a string
GivenSummary == aiStage(penv.ai).summary

\* the run returned its JSON result with a summary and key points
ReturnedSummary ==
    /\ ReachedSummarization
    /\ pformat = "json"
    /\ {"summary", "keyPoints"} \subseteq presult.fields

\* C26: the returned summary is the fallback summary exactly when the model's
\* summary is missing or shorter than 20 characters, the returned key points
\* are the fallback key points exactly when the model returned fewer than 3,
\* and each decision is taken without regard to the other
C26_IndependentBackfill ==
    ReturnedSummary =>
        /\ presult.summary =
              IF GivenSummary.len < MinSummaryLength
              THEN generateFallbackSummary(transcriptText(penv.blocks))
              ELSE GivenSummary
        /\ presult.keyPoints =
              IF Len(GivenKeyPoints) < MinKeyPoints
              THEN fallbackKeyPoints(transcriptText(penv.blocks), penv.blocks,
                                     metadataVideoUrl(penv.siteUrl))
              ELSE enrichKeyPoints(GivenKeyPoints, metadataVideoUrl(penv.siteUrl))

C26_Witness ==
    /\ ReturnedSummary
    /\ penv.blocks # <<>>
    /\ GivenSummary.src = "model" /\ GivenSummary.len = MinSummaryLength - 1
    /\ presult.summary.src = "transcript"
    /\ Len(GivenKeyPoints) = MinKeyPoints
    /\ presult.keyPoints = enrichKeyPoints(GivenKeyPoints, metadataVideoUrl(penv.siteUrl))
    /\ presult.keyPoints # fallbackKeyPoints(transcriptText(penv.blocks), penv.blocks,
                                             metadataVideoUrl(penv.siteUrl))

-----------------------------------------------------------------------------
(* Claims about the delay between the windows *)

\* C27: the batch waits once between two consecutive windows, after every
\* item of the earlier window has settled and before an item of the next
\* one is dispatched, and does not wait after the last window
C27_DelayBetweenWindows ==
    /\ \A p \in DOMAIN run : run[p] # "idle" => delays >= WindowOf(p) - 1
    /\ \A k \in 1..delays : \A p \in Range(batches[k]) : run[p] = "settled"
    /\ pc = "delay" =>
          /\ batchIndex + 1 < Len(batches)
          /\ delays = batchIndex
          /\ \A p \in Range(batches[batchIndex + 2]) : run[p] = "idle"
    /\ delays <= Max(Len(batches) - 1, 0)
    /\ BatchDone => delays = Max(Len(batches) - 1, 0)

C27_Witness ==
    /\ BatchDone
    /\ Len(batches) = 3
    /\ delays = 2
    /\ \A p \in DOMAIN run : run[p] = "settled"

-----------------------------------------------------------------------------
(* Claims about the termination of the batch *)

\* C28: for every list of file names and every value of BATCH_CONCURRENCY,
\* zero, negative and non-numeric ones included, processBatchFiles gets from
\* the split of its input to the construction of its response
C28_BatchTerminates == (pc = "chunk") ~> (pc = "done")

-----------------------------------------------------------------------------
(* Claims about the items of a batch in the output formats *)

\* the pipeline run of input position p returned a value that reports no error
ItemCompleted(p) ==
    /\ run[p] = "settled"
    /\ "error" \notin fileResults[p].fields

\* C29: in each of the output formats json, markdown, html, summary and
\* word, an item of a batch whose pipeline run completed without error is
\* recorded with success true
C29_CompletedItemsSucceed ==
    (IsBatch(request)
        /\ request.outputFormat \in {"json", "markdown", "html", "summary", "word"}) =>
        \A p \in DOMAIN run : ItemCompleted(p) => value[p].success

-----------------------------------------------------------------------------
(* SharePointWebhook (src/src/functions/SharePointWebhook/index.js): the
   handler of the change notifications of the drive *)

MaxNotifications == 3    \* longest body.value of a request

\* a notification, by what the handler and its collaborators make of it:
\*   resource  the last part of notification.resource: a .vtt name, another
\*             name, or nothing (inferNameFromResource returns null)
\*   id        whether resourceData.id is present
\*   item      what the drive answers for the item: a name of one of these
\*             kinds, no name, a name that is not a string, or an error
\*   forward   whether the POST to ProcessVttFile answers or throws
Notification(resource, id, item, forward) ==
    [resource |-> resource, id |-> id, item |-> item, forward |-> forward]

Notifications ==
    { Notification("vtt", TRUE, "vtt", "ok"),
      Notification("vtt", TRUE, "vtt", "throws"),
      Notification("other", TRUE, "other", "ok"),
      Notification("none", TRUE, "vtt", "ok"),
      Notification("none", TRUE, "throws", "ok"),
      Notification("none", TRUE, "notstring", "ok"),
      Notification("none", FALSE, "vtt", "ok") }

HookRequests ==
    { [token |-> TRUE, body |-> "none", value |-> <<>>],
      [token |-> FALSE, body |-> "none", value |-> <<>>],
      [token |-> FALSE, body |-> "object", value |-> <<>>] }
    \cup {[token |-> FALSE, body |-> "array", value |-> v] :
            v \in SeqsUpTo(Notifications, MaxNotifications)}

HookEnvs == [graphClient : BOOLEAN, processEndpoint : BOOLEAN]

\* one iteration of the loop over body.value, its try and catch included:
\* whether the item was looked up in the drive, and how the iteration ended
handleNotification(notification, env) ==
    LET inferred == notification.resource
        lookup == inferred = "none" /\ notification.id /\ env.graphClient
        itemName ==
            IF inferred # "none" THEN inferred
            ELSE IF lookup /\ notification.item # "throws" THEN notification.item
            ELSE "none"
    IN  [resolve |-> IF ~lookup THEN "none"
                     ELSE IF notification.item = "throws" THEN "failed" ELSE "ok",
         outcome |->
            IF itemName = "none" THEN "skipped: no name"
            ELSE IF itemName = "notstring" THEN "error caught"
            ELSE IF itemName = "other" THEN "skipped: not vtt"
            ELSE IF ~env.processEndpoint THEN "logged only"
            ELSE IF notification.forward = "throws" THEN "forward failed"
            ELSE "forwarded"]

Failed(handled) ==
    handled.resolve = "failed" \/ handled.outcome \in {"error caught", "forward failed"}

HookInit ==
    /\ BatchIdle /\ PipeIdle /\ LinkIdle /\ ParseIdle /\ TruncIdle /\ TimeIdle
    /\ hookReq \in HookRequests
    /\ hookEnv \in HookEnvs
    /\ hookPc = "start"
    /\ hookIndex = 0
    /\ hookHandled = <<>>
    /\ hookRes = NoHookRes

\* the subscription validation: the token is echoed as plain text
ReplyValidation ==
    /\ hookPc = "start"
    /\ hookReq.token
    /\ hookRes' = [status |-> 200, body |-> "validationToken"]
    /\ hookPc' = "done"
    /\ UNCHANGED <<hookReq, hookEnv, hookIndex, hookHandled, batchVars, pipeVars,
                   linkVars, parseVars, truncVars, timeVars>>

\* if (!body)
RejectNoPayload ==
    /\ hookPc = "start"
    /\ ~hookReq.token
    /\ hookReq.body = "none"
    /\ hookRes' = [status |-> 400, body |-> "No payload"]
    /\ hookPc' = "done"
    /\ UNCHANGED <<hookReq, hookEnv, hookIndex, hookHandled, batchVars, pipeVars,
                   linkVars, parseVars, truncVars, timeVars>>

\* if (!Array.isArray(body.value))
NoNotifications ==
    /\ hookPc = "start"
    /\ ~hookReq.token
    /\ hookReq.body = "object"
    /\ hookRes' = [status |-> 202, body |-> "No notifications"]
    /\ hookPc' = "done"
    /\ UNCHANGED <<hookReq, hookEnv, hookIndex, hookHandled, batchVars, pipeVars,
                   linkVars, parseVars, truncVars, timeVars>>

\* the handler enters the loop over body.value
EnterLoop ==
    /\ hookPc = "start"
    /\ ~hookReq.token
    /\ hookReq.body = "array"
    /\ hookIndex' = 1
    /\ hookPc' = "loop"
    /\ UNCHANGED <<hookReq, hookEnv, hookHandled, hookRes, batchVars, pipeVars,
                   linkVars, parseVars, truncVars, timeVars>>

\* a variant of HandleNotification that leaves the loop at a failed notification
HandleNotificationAbortOnError ==
    /\ hookPc = "loop"
    /\ hookIndex <= Len(hookReq.value)
    /\ LET handled == handleNotification(hookReq.value[hookIndex], hookEnv)
       IN  /\ hookHandled' = Append(hookHandled, handled)
           /\ hookIndex' = IF Failed(handled) THEN Len(hookReq.value) + 1
                           ELSE hookIndex + 1
    /\ UNCHANGED <<hookReq, hookEnv, hookPc, hookRes, batchVars, pipeVars,
                   linkVars, parseVars, truncVars, timeVars>>

\* one iteration of for (const notification of body.value)
HandleNotification ==
    /\ hookPc = "loop"
    /\ hookIndex <= Len(hookReq.value)
    /\ hookHandled' =
          Append(hookHandled, handleNotification(hookReq.value[hookIndex], hookEnv))
    /\ hookIndex' = hookIndex + 1
    /\ UNCHANGED <<hookReq, hookEnv, hookPc, hookRes, batchVars, pipeVars,
                   linkVars, parseVars, truncVars, timeVars>>

\* the loop is over: context.res = { status: 202, body: 'Webhook processed' }
Acknowledge ==
    /\ hookPc = "loop"
    /\ hookIndex > Len(hookReq.value)
    /\ hookRes' = [status |-> 202, body |-> "Webhook processed"]
    /\ hookPc' = "done"
    /\ UNCHANGED <<hookReq, hookEnv, hookIndex, hookHandled, batchVars, pipeVars,
                   linkVars, parseVars, truncVars, timeVars>>

HookNext ==
    \/ ReplyValidation
    \/ RejectNoPayload
    \/ NoNotifications
    \/ EnterLoop
    \/ HandleNotification
    \/ Acknowledge

WebhookSpec == HookInit /\ [][HookNext]_vars /\ WF_vars(HookNext)

-----------------------------------------------------------------------------
(* Claims about the webhook *)

\* the request carries an array of notifications and no validation token
ArrayPayload == hookPc # "off" /\ ~hookReq.token /\ hookReq.body = "array"

\* every notification up to position n was handled, in payload order
HandledInOrder(n) ==
    /\ Len(hookHandled) = n
    /\ \A k \in 1..n :
          hookHandled[k] = handleNotification(hookReq.value[k], hookEnv)

HookSafe ==
    ArrayPayload =>
        /\ hookPc = "loop" => HandledInOrder(hookIndex - 1)
        /\ hookPc = "done" =>
              /\ HandledInOrder(Len(hookReq.value))
              /\ hookRes = [status |-> 202, body |-> "Webhook processed"]

\* C30: for a payload whose value is an array the handler handles every
\* notification in payload order, a failure of the lookup or of the
\* forwarding of one notification not keeping it from the later ones, and
\* it ends by acknowledging with status 202
C30_EveryNotificationHandled ==
    /\ []HookSafe
    /\ ArrayPayload ~> (hookPc = "done" /\ hookRes.status = 202)

C30_Witness ==
    /\ ArrayPayload
    /\ hookPc = "done"
    /\ hookRes.status = 202
    /\ Len(hookHandled) = 3
    /\ hookHandled[1].resolve = "failed"
    /\ hookHandled[2].outcome = "forward failed"
    /\ hookHandled[3].outcome = "forwarded"

====
